---- MODULE Spec2Model ----
(***************************************************************************)
(* Grid-template designer of the voter-card extraction front end.          *)
(*                                                                         *)
(* gridOverlay is the single GridOverlay instance created by the           *)
(* application module, AppState is the application's session object.       *)
(* Every handler of the overlay and of the application module is one       *)
(* action.  Handlers run to completion on the UI thread, so the only       *)
(* interleaving is the order in which events and commands arrive.          *)
(*                                                                         *)
(* Coordinates are fixed-point: one canvas pixel is Unit sub-units, so     *)
(* that grid.width / grid.columns is exact for every column and row count  *)
(* the model lays out.  Pointer coordinates are whole pixels.              *)
(***************************************************************************)
EXTENDS Integers, Sequences, FiniteSets, TLC

\* gridOverlay    the fields of the GridOverlay instance
\* AppState       pdfFile and fileId of the application state
\* keyPresses     grid-changing key presses so far (bounds the run)
\* pointerDowns   pointer-down events so far (bounds the run)
\* inFlight       handler calls suspended at an await, per await
\* drawAbandoned  history: the rubber band in progress was abandoned (a mode
\*                exit, or the pointer left the canvas) and no pointer-down
\*                has started a new one since
\* pdfViewer      the PDFViewer object: document, page, scale, rendering flag
\* renderCall     the renderPage call suspended at an await, if any
\* azureVision    the AzureVisionIntegration object
\* detectCalls    autoDetectRegions calls suspended at their await, the
\*                timers they have set, and history: a call was rejected
\* users          the user collection of the server: records per email
\* signups        the signup requests of the server and their positions
VARIABLES gridOverlay, AppState, keyPresses, pointerDowns, inFlight, drawAbandoned,
          pdfViewer, renderCall, azureVision, detectCalls, users, signups

\* the page: overlay, application state and the histories of its events
pageVars == <<gridOverlay, AppState, keyPresses, pointerDowns, inFlight,
             drawAbandoned>>

\* the viewer, the detection service client and the server
serviceVars == <<pdfViewer, renderCall, azureVision, detectCalls, users,
                signups>>

vars == <<pageVars, serviceVars>>

----------------------------------------------------------------------------
(* Bounds of the model                                                     *)

\* grid-changing key presses explored (arrow keys and +/- are unbounded)
MaxKeys == 1
\* pointer-down events explored (each starts at most one gesture)
MaxPointerDowns == 2
\* handler calls that may be suspended at the same await at once
MaxInFlight == 1
\* largest scale the zoom-in command is followed to, in quarters
MaxScale == 8

----------------------------------------------------------------------------
(* Representation                                                          *)

\* sub-units per canvas pixel: a multiple of every row and column count the
\* model lays out, of the hundredths used by the quick template and of the
\* scale factors of the export
Unit == 600
Px(n) == n * Unit

\* JavaScript null
Null == [null |-> TRUE]

\* a hole in a boundary array (JavaScript undefined): every comparison with
\* it is false, which a position far outside every canvas reproduces
Undefined == 0 - Px(1000000)

Abs(n) == IF n < 0 THEN -n ELSE n
Min(a, b) == IF a < b THEN a ELSE b
Max(a, b) == IF a > b THEN a ELSE b

\* Math.round(v * num / den) for v in sub-units, result in sub-units
RoundFraction(v, num, den) ==
    Px((2 * v * num + den * Unit) \div (2 * den * Unit))

----------------------------------------------------------------------------
(* Program constants                                                       *)

MinGridSize == 100
LineThreshold == 8
HandleHitSize == 20
DefaultRows == 9
DefaultColumns == 3
ArrowStep == 1
ShiftArrowStep == 10
\* pdfScale and the viewer's scale, in quarters (6 = 1.5)
DefaultPdfScale == 6

CellBoxes == {"voterIdBox", "photoBox", "nameBox", "relativeNameBox",
              "houseNumberBox", "genderBox", "ageBox", "assemblyNumberBox",
              "serialNumberBox"}
HeaderBoxes == {"boothCenterBox", "boothAddressBox"}
AllBoxes == CellBoxes \cup HeaderBoxes

\* the field written for each templateType in handleMouseUp
CellBoxOfType(t) ==
    CASE t = "voterID" -> "voterIdBox"
      [] t = "photo" -> "photoBox"
      [] t = "name" -> "nameBox"
      [] t = "relativeName" -> "relativeNameBox"
      [] t = "houseNumber" -> "houseNumberBox"
      [] t = "gender" -> "genderBox"
      [] t = "age" -> "ageBox"
      [] t = "assemblyNumber" -> "assemblyNumberBox"
      [] t = "serialNumber" -> "serialNumberBox"
      [] OTHER -> "none"

HeaderBoxOfType(t) ==
    CASE t = "boothCenter" -> "boothCenterBox"
      [] t = "boothAddress" -> "boothAddressBox"
      [] OTHER -> "none"

\* templateType selected by Ctrl+digit in cell-template mode
TypeOfDigit(key) ==
    CASE key = "1" -> "voterID"
      [] key = "2" -> "name"
      [] key = "3" -> "relativeName"
      [] key = "4" -> "houseNumber"
      [] key = "5" -> "gender"
      [] key = "6" -> "age"
      [] key = "7" -> "assemblyNumber"
      [] key = "8" -> "photo"
      [] key = "9" -> "serialNumber"
      [] OTHER -> "none"

----------------------------------------------------------------------------
(* Inputs                                                                  *)

\* pointer positions on the overlay canvas, in pixels.  On the default
\* grid of a 240 x 240 canvas, (12, 24, 216, 197): the top-left and the
\* bottom-right corner, a point on the middle column line, a point on the
\* middle row line, a point inside cell (0, 0), a point left of the grid
GridPoints == {<<12, 24>>, <<228, 221>>, <<120, 60>>, <<60, 122>>,
               <<60, 60>>, <<0, 122>>}
\* pointer positions for the boundaries of the default grid with 3 columns
\* (column boundaries at 84 and 156, row boundary at 122.5): on the first
\* column boundary, inside the grid right of the second column boundary, on
\* the right edge, on the row boundary, on the bottom-right corner
LinePoints == {<<84, 60>>, <<180, 60>>, <<228, 60>>, <<60, 122>>,
               <<228, 221>>}
\* pointer positions used while drawing regions
DrawPoints == {<<12, 24>>, <<60, 60>>, <<120, 60>>}

\* pointer positions used where the claims are about committed regions: the
\* top-left corner of cell (0, 0) of the default grid, a point inside
\* cell (0, 0), a point inside cell (0, 1)
TemplatePoints == {<<12, 24>>, <<60, 60>>, <<180, 60>>}

\* pointer positions for the built-in template: a point inside cell (0, 0)
\* of the default grid and its bottom-right corner
QuickPoints == {<<60, 60>>, <<228, 221>>}

\* what the detection service reports for a page, in canvas pixels: the
\* identifier box of highest confidence only, the photo box of highest
\* confidence only (Null where the list of boxes is empty)
DetectedRegions ==
    {[voterIdBox |-> [x |-> Px(30), y |-> Px(40),
                      width |-> Px(50), height |-> Px(20)],
      photoBox |-> Null],
     [voterIdBox |-> Null,
      photoBox |-> [x |-> Px(80), y |-> Px(40),
                    width |-> Px(30), height |-> Px(40)]]}

\* the grid the detection service reports: none, or a boundary in canvas
\* pixels with the row count given and the column count missing
DetectedGrids ==
    {[gridDetected |-> FALSE, gridRows |-> 0, gridColumns |-> 0,
      gridBoundary |-> Null],
     [gridDetected |-> TRUE, gridRows |-> 2, gridColumns |-> 0,
      gridBoundary |-> [x |-> Px(12), y |-> Px(24),
                        width |-> Px(216), height |-> Px(192)]]}

\* what API.detectRegions resolves with
DetectionResults ==
    {[success |-> ok, detected |-> d, grid |-> g] :
        ok \in BOOLEAN, d \in DetectedRegions, g \in DetectedGrids}

\* pointer positions where the claims are about the export and the page
\* view: the top-left corner of the default grid and a point inside its
\* cell (0, 0)
ViewPoints == {<<12, 24>>, <<60, 60>>}

\* values typed into the rows / columns fields (0 stands for an empty or
\* non-numeric field as well: parseInt gives NaN, which is falsy like 0)
RowInputs == {-1, 2}
ColumnInputs == {0, 2}
\* the single layout used where the claims are about modes and regions
TemplateRows == {2}
TemplateColumns == {2}

\* page-rendered notifications: canvas size in pixels and scale in quarters
RenderEvents == {[width |-> 240, height |-> 240, scale |-> 6],
                 [width |-> 200, height |-> 200, scale |-> 5]}
\* the first page of a newly loaded document, at the viewer's default scale
FirstRender == [width |-> 240, height |-> 240, scale |-> 6]

Key(k, shift, ctrl) == [key |-> k, shiftKey |-> shift, ctrlKey |-> ctrl]

\* keys of the grid adjustment
GridKeyEvents ==
    {Key("ArrowUp", TRUE, FALSE), Key("ArrowRight", FALSE, FALSE),
     Key("+", FALSE, FALSE), Key("-", TRUE, FALSE)}

\* keys of the field selection, and two grid keys
KeyEvents ==
    {Key("ArrowRight", FALSE, FALSE), Key("-", TRUE, FALSE),
     Key("1", FALSE, TRUE), Key("8", FALSE, TRUE), Key("8", FALSE, FALSE),
     Key("i", FALSE, FALSE), Key("F2", FALSE, TRUE), Key("F3", FALSE, TRUE)}

\* field selection: identifier and photo of the cell template, booth
\* address of the page template
TemplateKeyEvents ==
    {Key("1", FALSE, TRUE), Key("8", FALSE, TRUE), Key("F3", FALSE, TRUE)}

GridKeys == {"ArrowUp", "ArrowDown", "ArrowLeft", "ArrowRight",
             "+", "=", "-", "_"}

----------------------------------------------------------------------------
(* Geometry helpers of GridOverlay                                         *)

\* [grid.x, ...customColPositions, grid.x + grid.width]
colPositionsOf(o) ==
    <<o.grid.x>> \o o.customColPositions \o <<o.grid.x + o.grid.width>>

\* [grid.y, ...customRowPositions, grid.y + grid.height]
rowPositionsOf(o) ==
    <<o.grid.y>> \o o.customRowPositions \o <<o.grid.y + o.grid.height>>

getFirstCell(o) ==
    IF o.grid = Null THEN Null
    ELSE [x |-> colPositionsOf(o)[1],
          y |-> rowPositionsOf(o)[1],
          width |-> colPositionsOf(o)[2] - colPositionsOf(o)[1],
          height |-> rowPositionsOf(o)[2] - rowPositionsOf(o)[1]]

\* the rectangle of cell (row, col), 0-based, as the replication derives it
cellRect(o, row, col) ==
    [x |-> colPositionsOf(o)[col + 1],
     y |-> rowPositionsOf(o)[row + 1],
     width |-> colPositionsOf(o)[col + 2] - colPositionsOf(o)[col + 1],
     height |-> rowPositionsOf(o)[row + 2] - rowPositionsOf(o)[row + 1]]

isPointInGrid(o, x, y) ==
    IF o.grid = Null THEN FALSE
    ELSE /\ x >= o.grid.x
         /\ x <= o.grid.x + o.grid.width
         /\ y >= o.grid.y
         /\ y <= o.grid.y + o.grid.height

NearCorner(x, y, cx, cy) ==
    Abs(x - cx) <= Px(HandleHitSize) /\ Abs(y - cy) <= Px(HandleHitSize)

\* first corner, in the order topLeft, topRight, bottomLeft, bottomRight,
\* whose clickable area contains the point; "null" if none
getResizeHandle(o, x, y) ==
    IF o.grid = Null THEN "null"
    ELSE LET g == o.grid
         IN IF NearCorner(x, y, g.x, g.y) THEN "topLeft"
            ELSE IF NearCorner(x, y, g.x + g.width, g.y) THEN "topRight"
            ELSE IF NearCorner(x, y, g.x, g.y + g.height) THEN "bottomLeft"
            ELSE IF NearCorner(x, y, g.x + g.width, g.y + g.height)
                 THEN "bottomRight"
            ELSE "null"

\* column lines are tested first, each list in index order (0-based index)
getGridLineAtPoint(o, x, y) ==
    IF o.grid = Null THEN Null
    ELSE LET g == o.grid
             colHits == {i \in 1..Len(o.customColPositions) :
                           /\ Abs(x - o.customColPositions[i])
                                 <= Px(LineThreshold)
                           /\ y >= g.y
                           /\ y <= g.y + g.height}
             rowHits == {i \in 1..Len(o.customRowPositions) :
                           /\ Abs(y - o.customRowPositions[i])
                                 <= Px(LineThreshold)
                           /\ x >= g.x
                           /\ x <= g.x + g.width}
             first(S) == CHOOSE i \in S : \A j \in S : i <= j
         IN IF colHits # {} THEN [type |-> "col", index |-> first(colHits) - 1]
            ELSE IF rowHits # {}
                 THEN [type |-> "row", index |-> first(rowHits) - 1]
            ELSE Null

\* boundaries of a grid rectangle at equal spacing
UniformPositions(origin, size, count) ==
    [i \in 1..(count - 1) |-> origin + (i * size) \div count]

\* initializeCustomPositions with the row count used for the columns
initializeCustomPositions_swapped(o) ==
    IF o.grid = Null THEN o
    ELSE [o EXCEPT
            !.customColPositions =
                UniformPositions(o.grid.x, o.grid.width, o.grid.rows),
            !.customRowPositions =
                UniformPositions(o.grid.y, o.grid.height, o.grid.rows)]

initializeCustomPositions(o) ==
    IF o.grid = Null THEN o
    ELSE [o EXCEPT
            !.customColPositions =
                UniformPositions(o.grid.x, o.grid.width, o.grid.columns),
            !.customRowPositions =
                UniformPositions(o.grid.y, o.grid.height, o.grid.rows)]

\* array[index] = value for a 0-based index; an index past the end grows
\* the array and leaves holes
SetAt(seq, index, value) ==
    [k \in 1..Max(Len(seq), index + 1) |->
        IF k = index + 1 THEN value
        ELSE IF k <= Len(seq) THEN seq[k]
        ELSE Undefined]

\* isTemplateComplete satisfied by any region of the cell template
isTemplateComplete_anyRegion(o) == \E b \in CellBoxes : o.boxes[b] # Null

isTemplateComplete(o) == o.boxes.voterIdBox # Null

isHeaderTemplateComplete(o) ==
    o.boxes.boothCenterBox # Null \/ o.boxes.boothAddressBox # Null

NoBoxes == [b \in AllBoxes |-> Null]

\* page counts of the documents loaded into the viewer
Documents == {1, 2}

\* the signup requests the server handles at the same time, and the emails
\* and passwords their bodies carry ("" is a missing field)
Requests == {1, 2}
Emails == {"a@x", "b@x"}
Passwords == {"", "pw"}

\* a request that has not arrived
NoRequest == [pc |-> "none", email |-> "", status |-> 0]

----------------------------------------------------------------------------
(* Initial state: the GridOverlay constructor and the AppState literal     *)

Init ==
    /\ gridOverlay =
         [canvas |-> [width |-> 0, height |-> 0],
          grid |-> Null,
          isDrawing |-> FALSE,
          isDragging |-> FALSE,
          isResizing |-> FALSE,
          isDraggingLine |-> FALSE,
          resizeHandle |-> "null",
          draggedLine |-> Null,
          dragStartX |-> 0,
          dragStartY |-> 0,
          gridStartX |-> 0,
          gridStartY |-> 0,
          gridStartWidth |-> 0,
          gridStartHeight |-> 0,
          customRowPositions |-> <<>>,
          customColPositions |-> <<>>,
          templateMode |-> FALSE,
          headerTemplateMode |-> FALSE,
          templateType |-> "null",
          boxes |-> NoBoxes,
          headerTemplateApplied |-> FALSE,
          gridResizeDisabled |-> FALSE,
          drawStart |-> Null,
          currentRect |-> Null,
          pdfScale |-> DefaultPdfScale]
    /\ AppState = [pdfFile |-> FALSE, fileId |-> FALSE]
    /\ keyPresses = 0
    /\ pointerDowns = 0
    /\ inFlight = [upload |-> 0, configure |-> 0, extract |-> 0]
    /\ drawAbandoned = FALSE
    /\ pdfViewer = [pdfDoc |-> FALSE,
                    loadingTask |-> FALSE,
                    currentPage |-> 1,
                    totalPages |-> 0,
                    scale |-> DefaultPdfScale,
                    rendering |-> FALSE,
                    canvas |-> [width |-> 0, height |-> 0]]
    /\ renderCall = Null
    /\ azureVision = [isDetecting |-> FALSE, lastDetectionResult |-> Null]
    /\ detectCalls = [awaiting |-> 0, timers |-> {}, rejected |-> FALSE]
    /\ users = [e \in Emails |-> 0]
    /\ signups = [r \in Requests |-> NoRequest]

----------------------------------------------------------------------------
(* Pointer handlers of GridOverlay                                         *)

\* handleMouseDown without its test of gridResizeDisabled
MouseDownResult_whenFrozen(o, x, y) ==
    IF o.headerTemplateMode
    THEN IF o.templateType \in {"boothCenter", "boothAddress"}
         THEN [o EXCEPT !.isDrawing = TRUE,
                        !.drawStart = [x |-> x, y |-> y]]
         ELSE o
    ELSE IF o.templateMode /\ o.grid # Null
    THEN [o EXCEPT !.isDrawing = TRUE,
                   !.drawStart = [x |-> x, y |-> y]]
    ELSE IF o.grid # Null /\ ~o.templateMode /\ ~o.headerTemplateMode
    THEN LET handle == getResizeHandle(o, x, y)
             line == getGridLineAtPoint(o, x, y)
         IN IF handle # "null"
            THEN [o EXCEPT !.isResizing = TRUE,
                           !.resizeHandle = handle,
                           !.dragStartX = x,
                           !.dragStartY = y,
                           !.gridStartX = o.grid.x,
                           !.gridStartY = o.grid.y,
                           !.gridStartWidth = o.grid.width,
                           !.gridStartHeight = o.grid.height]
            ELSE IF line # Null
            THEN [o EXCEPT !.isDraggingLine = TRUE,
                           !.draggedLine = line,
                           !.dragStartX = x,
                           !.dragStartY = y]
            ELSE IF isPointInGrid(o, x, y)
            THEN [o EXCEPT !.isDragging = TRUE,
                           !.dragStartX = x - o.grid.x,
                           !.dragStartY = y - o.grid.y]
            ELSE o
    ELSE o

\* the assignments of handleMouseDown at canvas point (x, y)
MouseDownResult(o, x, y) ==
    IF o.headerTemplateMode
    THEN IF o.templateType \in {"boothCenter", "boothAddress"}
         THEN [o EXCEPT !.isDrawing = TRUE,
                        !.drawStart = [x |-> x, y |-> y]]
         ELSE o
    ELSE IF o.templateMode /\ o.grid # Null
    THEN [o EXCEPT !.isDrawing = TRUE,
                   !.drawStart = [x |-> x, y |-> y]]
    ELSE IF /\ o.grid # Null
            /\ ~o.templateMode
            /\ ~o.headerTemplateMode
            /\ ~o.gridResizeDisabled
    THEN LET handle == getResizeHandle(o, x, y)
             line == getGridLineAtPoint(o, x, y)
         IN IF handle # "null"
            THEN [o EXCEPT !.isResizing = TRUE,
                           !.resizeHandle = handle,
                           !.dragStartX = x,
                           !.dragStartY = y,
                           !.gridStartX = o.grid.x,
                           !.gridStartY = o.grid.y,
                           !.gridStartWidth = o.grid.width,
                           !.gridStartHeight = o.grid.height]
            ELSE IF line # Null
            THEN [o EXCEPT !.isDraggingLine = TRUE,
                           !.draggedLine = line,
                           !.dragStartX = x,
                           !.dragStartY = y]
            ELSE IF isPointInGrid(o, x, y)
            THEN [o EXCEPT !.isDragging = TRUE,
                           !.dragStartX = x - o.grid.x,
                           !.dragStartY = y - o.grid.y]
            ELSE o
    ELSE o

\* handleMouseDown takes one of its two drawing branches
StartsDraw(o) ==
    IF o.headerTemplateMode
    THEN o.templateType \in {"boothCenter", "boothAddress"}
    ELSE o.templateMode /\ o.grid # Null

handleMouseDown(x, y) ==
    /\ pointerDowns < MaxPointerDowns
    /\ pointerDowns' = pointerDowns + 1
    /\ gridOverlay' = MouseDownResult(gridOverlay, x, y)
    /\ drawAbandoned' = IF StartsDraw(gridOverlay) THEN FALSE
                        ELSE drawAbandoned
    /\ UNCHANGED <<AppState, keyPresses, inFlight>>
    /\ UNCHANGED serviceVars

\* the grid rectangle of the isResizing branch before the minimum is applied
ResizedGrid(o, deltaX, deltaY) ==
    CASE o.resizeHandle = "topLeft" ->
           [o.grid EXCEPT !.x = o.gridStartX + deltaX,
                          !.y = o.gridStartY + deltaY,
                          !.width = o.gridStartWidth - deltaX,
                          !.height = o.gridStartHeight - deltaY]
      [] o.resizeHandle = "topRight" ->
           [o.grid EXCEPT !.y = o.gridStartY + deltaY,
                          !.width = o.gridStartWidth + deltaX,
                          !.height = o.gridStartHeight - deltaY]
      [] o.resizeHandle = "bottomLeft" ->
           [o.grid EXCEPT !.x = o.gridStartX + deltaX,
                          !.width = o.gridStartWidth - deltaX,
                          !.height = o.gridStartHeight + deltaY]
      [] o.resizeHandle = "bottomRight" ->
           [o.grid EXCEPT !.width = o.gridStartWidth + deltaX,
                          !.height = o.gridStartHeight + deltaY]
      [] OTHER -> o.grid

\* "Ensure minimum size"
EnsureMinimumSize(g) ==
    [g EXCEPT !.width = IF g.width < Px(MinGridSize)
                        THEN Px(MinGridSize) ELSE g.width,
              !.height = IF g.height < Px(MinGridSize)
                         THEN Px(MinGridSize) ELSE g.height]

\* the isDraggingLine branch with the edges of the grid allowed
DragLineResult_inclusive(o, x, y) ==
    IF o.draggedLine.type = "row"
    THEN IF y >= o.grid.y /\ y <= o.grid.y + o.grid.height
         THEN [o EXCEPT !.customRowPositions =
                           SetAt(o.customRowPositions, o.draggedLine.index, y)]
         ELSE o
    ELSE IF o.draggedLine.type = "col"
    THEN IF x >= o.grid.x /\ x <= o.grid.x + o.grid.width
         THEN [o EXCEPT !.customColPositions =
                           SetAt(o.customColPositions, o.draggedLine.index, x)]
         ELSE o
    ELSE o

\* the isDraggingLine branch: the position is stored only when it is
\* strictly inside the grid's span
DragLineResult(o, x, y) ==
    IF o.draggedLine.type = "row"
    THEN IF y > o.grid.y /\ y < o.grid.y + o.grid.height
         THEN [o EXCEPT !.customRowPositions =
                           SetAt(o.customRowPositions, o.draggedLine.index, y)]
         ELSE o
    ELSE IF o.draggedLine.type = "col"
    THEN IF x > o.grid.x /\ x < o.grid.x + o.grid.width
         THEN [o EXCEPT !.customColPositions =
                           SetAt(o.customColPositions, o.draggedLine.index, x)]
         ELSE o
    ELSE o

\* the branch of handleMouseMove that runs, in the order of its else-if chain
MouseMoveBranch(o) ==
    IF o.isDrawing /\ o.drawStart # Null THEN "draw"
    ELSE IF o.isDraggingLine /\ o.draggedLine # Null THEN "line"
    ELSE IF o.isResizing /\ o.grid # Null THEN "resize"
    ELSE IF o.isDragging /\ o.grid # Null THEN "drag"
    ELSE "hover"

\* handleMouseMove whose resize branch keeps the boundary positions
MouseMoveResult_keepsPositions(o, x, y) ==
    CASE MouseMoveBranch(o) = "draw" ->
           [o EXCEPT !.currentRect =
                        [x |-> Min(o.drawStart.x, x),
                         y |-> Min(o.drawStart.y, y),
                         width |-> Abs(x - o.drawStart.x),
                         height |-> Abs(y - o.drawStart.y)]]
      [] MouseMoveBranch(o) = "line" ->
           IF o.grid = Null THEN o ELSE DragLineResult(o, x, y)
      [] MouseMoveBranch(o) = "resize" ->
           [o EXCEPT !.grid = EnsureMinimumSize(
                        ResizedGrid(o, x - o.dragStartX, y - o.dragStartY))]
      [] MouseMoveBranch(o) = "drag" ->
           [o EXCEPT !.grid.x = x - o.dragStartX,
                     !.grid.y = y - o.dragStartY]
      [] OTHER -> o

MouseMoveResult(o, x, y) ==
    CASE MouseMoveBranch(o) = "draw" ->
           [o EXCEPT !.currentRect =
                        [x |-> Min(o.drawStart.x, x),
                         y |-> Min(o.drawStart.y, y),
                         width |-> Abs(x - o.drawStart.x),
                         height |-> Abs(y - o.drawStart.y)]]
      [] MouseMoveBranch(o) = "line" ->
           \* with no grid, reading this.grid.y throws and the handler ends
           IF o.grid = Null THEN o ELSE DragLineResult(o, x, y)
      [] MouseMoveBranch(o) = "resize" ->
           initializeCustomPositions(
              [o EXCEPT !.grid = EnsureMinimumSize(
                           ResizedGrid(o, x - o.dragStartX,
                                       y - o.dragStartY))])
      [] MouseMoveBranch(o) = "drag" ->
           [o EXCEPT !.grid.x = x - o.dragStartX,
                     !.grid.y = y - o.dragStartY]
      [] OTHER -> o

handleMouseMove(x, y) ==
    /\ gridOverlay' = MouseMoveResult(gridOverlay, x, y)
    /\ UNCHANGED <<AppState, keyPresses, pointerDowns, inFlight, drawAbandoned>>
    /\ UNCHANGED serviceVars

\* the commit with the cell-scoped region stored in canvas coordinates
CommittedBoxes_absolute(o) ==
    LET box == o.currentRect
    IN IF o.headerTemplateMode
       THEN IF HeaderBoxOfType(o.templateType) # "none"
            THEN [o.boxes EXCEPT ![HeaderBoxOfType(o.templateType)] = box]
            ELSE o.boxes
       ELSE IF o.templateMode
       THEN IF o.grid = Null THEN o.boxes
            ELSE IF CellBoxOfType(o.templateType) # "none"
            THEN [o.boxes EXCEPT ![CellBoxOfType(o.templateType)] = box]
            ELSE o.boxes
       ELSE o.boxes

\* the region stored by a committing pointer-up
CommittedBoxes(o) ==
    LET box == o.currentRect
    IN IF o.headerTemplateMode
       THEN IF HeaderBoxOfType(o.templateType) # "none"
            THEN [o.boxes EXCEPT ![HeaderBoxOfType(o.templateType)] = box]
            ELSE o.boxes
       ELSE IF o.templateMode
       THEN \* with no grid, getFirstCell() is null and the handler throws
            IF o.grid = Null THEN o.boxes
            ELSE IF CellBoxOfType(o.templateType) # "none"
            THEN [o.boxes EXCEPT ![CellBoxOfType(o.templateType)] =
                     [box EXCEPT !.x = box.x - getFirstCell(o).x,
                                 !.y = box.y - getFirstCell(o).y]]
            ELSE o.boxes
       ELSE o.boxes

\* a handleMouseUp that throws on every commit
MouseUpThrows_onEveryCommit(o) == o.isDrawing /\ o.currentRect # Null

\* handleMouseUp throws at firstCell.x when it commits in cell-template mode
\* with no grid; nothing after the throw runs
MouseUpThrows(o) ==
    /\ o.isDrawing /\ o.currentRect # Null
    /\ ~o.headerTemplateMode /\ o.templateMode /\ o.grid = Null

\* handleMouseUp that leaves the definition mode after a commit
MouseUpResult_leavesMode(o) ==
    IF MouseUpThrows(o) THEN o
    ELSE LET committed ==
               IF o.isDrawing /\ o.currentRect # Null
               THEN [o EXCEPT !.boxes = CommittedBoxes(o),
                              !.currentRect = Null,
                              !.templateMode = FALSE,
                              !.headerTemplateMode = FALSE,
                              !.templateType = "null"]
               ELSE o
         IN [committed EXCEPT !.isDrawing = FALSE,
                              !.isDragging = FALSE,
                              !.isResizing = FALSE,
                              !.isDraggingLine = FALSE,
                              !.resizeHandle = "null",
                              !.draggedLine = Null]

MouseUpResult(o) ==
    IF MouseUpThrows(o) THEN o
    ELSE LET committed ==
               IF o.isDrawing /\ o.currentRect # Null
               THEN [o EXCEPT !.boxes = CommittedBoxes(o),
                              !.currentRect = Null]
               ELSE o
         IN [committed EXCEPT !.isDrawing = FALSE,
                              !.isDragging = FALSE,
                              !.isResizing = FALSE,
                              !.isDraggingLine = FALSE,
                              !.resizeHandle = "null",
                              !.draggedLine = Null]

handleMouseUp ==
    /\ gridOverlay' = MouseUpResult(gridOverlay)
    /\ drawAbandoned' = IF gridOverlay'.isDrawing THEN drawAbandoned ELSE FALSE
    /\ UNCHANGED <<AppState, keyPresses, pointerDowns, inFlight>>
    /\ UNCHANGED serviceVars

\* the pointer leaves the canvas: no listener is registered for it
PointerLeave ==
    /\ gridOverlay.isDrawing
    /\ ~drawAbandoned
    /\ drawAbandoned' = TRUE
    /\ UNCHANGED <<gridOverlay, AppState, keyPresses, pointerDowns, inFlight>>
    /\ UNCHANGED serviceVars

----------------------------------------------------------------------------
(* Keyboard handler of GridOverlay                                         *)

KeyStep(ev) == IF ev.shiftKey THEN Px(ShiftArrowStep) ELSE Px(ArrowStep)

\* the switch of the grid-adjustment branch
AdjustedGrid(g, ev) ==
    LET step == KeyStep(ev)
    IN CASE ev.key = "ArrowUp" -> [g EXCEPT !.y = g.y - step]
         [] ev.key = "ArrowDown" -> [g EXCEPT !.y = g.y + step]
         [] ev.key = "ArrowLeft" -> [g EXCEPT !.x = g.x - step]
         [] ev.key = "ArrowRight" -> [g EXCEPT !.x = g.x + step]
         [] ev.key \in {"+", "="} ->
              [g EXCEPT !.width = g.width + step * 2,
                        !.height = g.height + step * 2]
         [] ev.key \in {"-", "_"} ->
              [g EXCEPT !.width = g.width - step * 2,
                        !.height = g.height - step * 2]
         [] OTHER -> g

\* the condition under which handleKeyDown reaches the grid adjustment
KeyAdjustsGrid(o) ==
    /\ ~o.headerTemplateMode
    /\ ~o.templateMode
    /\ o.grid # Null /\ ~o.templateMode /\ ~o.headerTemplateMode

KeyDownResult(o, ev) ==
    IF o.headerTemplateMode
    THEN IF ev.ctrlKey /\ ev.key = "F2"
         THEN [o EXCEPT !.templateType = "boothCenter"]
         ELSE IF ev.ctrlKey /\ ev.key = "F3"
         THEN [o EXCEPT !.templateType = "boothAddress"]
         ELSE o
    ELSE IF o.templateMode
    THEN IF ev.ctrlKey
         THEN IF TypeOfDigit(ev.key) # "none"
              THEN [o EXCEPT !.templateType = TypeOfDigit(ev.key)]
              ELSE o
         ELSE IF ev.key \in {"v", "V"}
         THEN [o EXCEPT !.templateType = "voterID"]
         ELSE IF ev.key \in {"i", "I"}
         THEN [o EXCEPT !.templateType = "photo"]
         ELSE o
    ELSE IF KeyAdjustsGrid(o)
    THEN [o EXCEPT !.grid = AdjustedGrid(o.grid, ev)]
    ELSE o

handleKeyDown(ev) ==
    /\ gridOverlay' = KeyDownResult(gridOverlay, ev)
    /\ IF KeyAdjustsGrid(gridOverlay) /\ ev.key \in GridKeys
       THEN keyPresses < MaxKeys /\ keyPresses' = keyPresses + 1
       ELSE UNCHANGED keyPresses
    /\ UNCHANGED <<AppState, pointerDowns, inFlight, drawAbandoned>>
    /\ UNCHANGED serviceVars

----------------------------------------------------------------------------
(* Commands of GridOverlay                                                 *)

\* handlePDFPageRendered that also discards the grid of the previous view
handlePDFPageRenderedResult_dropsGrid(o, ev) ==
    [o EXCEPT !.canvas = [width |-> Px(ev.width), height |-> Px(ev.height)],
              !.pdfScale = ev.scale,
              !.grid = Null,
              !.customRowPositions = <<>>,
              !.customColPositions = <<>>]

handlePDFPageRenderedResult(o, ev) ==
    [o EXCEPT !.canvas = [width |-> Px(ev.width), height |-> Px(ev.height)],
              !.pdfScale = ev.scale]

\* rect is Null when the caller passes only rows and columns
drawGrid(o, rows, columns, rect) ==
    IF o.canvas.width = 0 \/ o.canvas.height = 0 THEN o
    ELSE LET x == IF rect = Null
                  THEN RoundFraction(o.canvas.width, 5, 100) ELSE rect.x
             y == IF rect = Null
                  THEN RoundFraction(o.canvas.height, 10, 100) ELSE rect.y
             width == IF rect = Null \/ rect.width = 0
                      THEN RoundFraction(o.canvas.width, 90, 100)
                      ELSE rect.width
             height == IF rect = Null \/ rect.height = 0
                       THEN RoundFraction(o.canvas.height, 82, 100)
                       ELSE rect.height
         IN initializeCustomPositions(
               [o EXCEPT !.grid = [rows |-> rows, columns |-> columns,
                                   x |-> x, y |-> y,
                                   width |-> width, height |-> height]])

\* clearGrid that leaves template mode and the cell-scoped regions
clearGrid_keepsTemplate(o) ==
    [o EXCEPT !.grid = Null,
              !.boxes = [b \in AllBoxes |->
                            IF b \in CellBoxes THEN o.boxes[b] ELSE Null],
              !.headerTemplateMode = FALSE,
              !.headerTemplateApplied = FALSE,
              !.gridResizeDisabled = FALSE,
              !.customRowPositions = <<>>,
              !.customColPositions = <<>>]

\* clearGrid that keeps the page-scoped regions
clearGrid_keepsHeaderBoxes(o) ==
    [o EXCEPT !.grid = Null,
              !.boxes = [b \in AllBoxes |->
                            IF b \in HeaderBoxes THEN o.boxes[b] ELSE Null],
              !.templateMode = FALSE,
              !.headerTemplateMode = FALSE,
              !.headerTemplateApplied = FALSE,
              !.gridResizeDisabled = FALSE,
              !.customRowPositions = <<>>,
              !.customColPositions = <<>>]

clearGrid(o) ==
    [o EXCEPT !.grid = Null,
              !.boxes = NoBoxes,
              !.templateMode = FALSE,
              !.headerTemplateMode = FALSE,
              !.headerTemplateApplied = FALSE,
              !.gridResizeDisabled = FALSE,
              !.customRowPositions = <<>>,
              !.customColPositions = <<>>]

\* enableTemplateMode without its test of the grid
enableTemplateMode_unchecked(o) ==
    [o EXCEPT !.templateMode = TRUE, !.templateType = "voterID"]

enableTemplateMode(o) ==
    IF o.grid = Null THEN o
    ELSE [o EXCEPT !.templateMode = TRUE, !.templateType = "voterID"]

\* the value enableTemplateMode returns
enableTemplateModeReturns(o) == o.grid # Null

disableTemplateMode(o) ==
    [o EXCEPT !.templateMode = FALSE, !.templateType = "null"]

enableHeaderTemplateMode(o) ==
    [o EXCEPT !.headerTemplateMode = TRUE, !.templateType = "boothCenter"]

disableHeaderTemplateMode(o) ==
    [o EXCEPT !.headerTemplateMode = FALSE, !.templateType = "null"]

\* value * percent / 100
Fraction(value, percent) == (value * percent) \div 100

\* the overlay after applyQuickTemplate
QuickTemplateResult(o) ==
    IF o.grid = Null THEN o
    ELSE LET cellWidth == getFirstCell(o).width
             cellHeight == getFirstCell(o).height
         IN [o EXCEPT
               !.boxes.voterIdBox =
                   [x |-> Fraction(cellWidth, 5),
                    y |-> Fraction(cellHeight, 15),
                    width |-> Fraction(cellWidth, 55),
                    height |-> Fraction(cellHeight, 35)],
               !.boxes.photoBox =
                   [x |-> Fraction(cellWidth, 62),
                    y |-> Fraction(cellHeight, 10),
                    width |-> Fraction(cellWidth, 33),
                    height |-> Fraction(cellHeight, 70)]]

\* the value applyQuickTemplate returns (getFirstCell is null only without
\* a grid)
applyQuickTemplateReturns(o) == o.grid # Null

applyQuickTemplate ==
    /\ gridOverlay' = QuickTemplateResult(gridOverlay)
    /\ UNCHANGED <<AppState, keyPresses, pointerDowns, inFlight, drawAbandoned>>
    /\ UNCHANGED serviceVars

\* a detected box relative to the first cell
DetectedBox(o, box) ==
    [x |-> box.x - getFirstCell(o).x,
     y |-> box.y - getFirstCell(o).y,
     width |-> box.width,
     height |-> box.height]

\* AzureVisionIntegration.applyTemplateBoxes
applyTemplateBoxesResult(o, detected) ==
    IF o.grid = Null THEN o
    ELSE [o EXCEPT
            !.boxes.voterIdBox =
                IF detected.voterIdBox # Null
                THEN DetectedBox(o, detected.voterIdBox)
                ELSE @,
            !.boxes.photoBox =
                IF detected.photoBox # Null
                THEN DetectedBox(o, detected.photoBox)
                ELSE @]

applyTemplateBoxes(detected) ==
    /\ gridOverlay' = applyTemplateBoxesResult(gridOverlay, detected)
    /\ UNCHANGED <<AppState, keyPresses, pointerDowns, inFlight, drawAbandoned>>
    /\ UNCHANGED serviceVars

\* half a pixel: every cell size of the layouts of this model is a
\* multiple of it
HalfPixel == Unit \div 2

\* value * (size / reference), the scale factor being the ratio of two
\* cell sizes; a reference of 0 gives no finite number
ScaleTo(value, size, reference) ==
    IF reference \div HalfPixel = 0 THEN Undefined
    ELSE (value * (size \div HalfPixel)) \div (reference \div HalfPixel)

\* the replication without scaling: the region translated to the cell
ReplicatedRegion_unscaled(cell, reference, box) ==
    [x |-> cell.x + box.x, y |-> cell.y + box.y,
     width |-> box.width, height |-> box.height]

\* the replication with the vertical scale used on both axes
ReplicatedRegion_oneScale(cell, reference, box) ==
    [x |-> cell.x + ScaleTo(box.x, cell.height, reference.height),
     y |-> cell.y + ScaleTo(box.y, cell.height, reference.height),
     width |-> ScaleTo(box.width, cell.height, reference.height),
     height |-> ScaleTo(box.height, cell.height, reference.height)]

\* the rectangle drawTemplateOnAllCells draws in a cell for one region
ReplicatedRegion(cell, reference, box) ==
    [x |-> cell.x + ScaleTo(box.x, cell.width, reference.width),
     y |-> cell.y + ScaleTo(box.y, cell.height, reference.height),
     width |-> ScaleTo(box.width, cell.width, reference.width),
     height |-> ScaleTo(box.height, cell.height, reference.height)]

\* the rectangles drawn per cell and defined cell-scoped region
drawTemplateOnAllCells(o) ==
    [row \in 0..(o.grid.rows - 1), col \in 0..(o.grid.columns - 1) |->
        [b \in {c \in CellBoxes : o.boxes[c] # Null} |->
            ReplicatedRegion(cellRect(o, row, col), getFirstCell(o),
                             o.boxes[b])]]

\* redraw reaches drawTemplateOnAllCells
ReplicationDrawn(o) ==
    /\ o.grid # Null
    /\ o.templateMode \/ o.boxes.voterIdBox # Null \/ o.boxes.photoBox # Null
    /\ ~o.templateMode /\ o.boxes.voterIdBox # Null

----------------------------------------------------------------------------
(* Handlers of the application module                                      *)

\* parseInt(value) || fallback
ParseIntOr(value, fallback) == IF value = 0 THEN fallback ELSE value

handlePDFPageRendered(ev) ==
    /\ AppState.pdfFile
    /\ gridOverlay' = handlePDFPageRenderedResult(gridOverlay, ev)
    /\ UNCHANGED <<AppState, keyPresses, pointerDowns, inFlight, drawAbandoned>>
    /\ UNCHANGED serviceVars

\* loadPDFFile up to its await of the upload: the viewer renders page 1,
\* which notifies the overlay, and the file is recorded
loadPDFFile ==
    /\ inFlight.upload < MaxInFlight
    /\ gridOverlay' = handlePDFPageRenderedResult(gridOverlay, FirstRender)
    /\ AppState' = [AppState EXCEPT !.pdfFile = TRUE]
    /\ inFlight' = [inFlight EXCEPT !.upload = @ + 1]
    /\ UNCHANGED <<keyPresses, pointerDowns, drawAbandoned>>
    /\ UNCHANGED serviceVars

\* the upload resolves (fileId set) or rejects (fileId set to null)
uploadSettled(ok) ==
    /\ inFlight.upload > 0
    /\ AppState' = [AppState EXCEPT !.fileId = ok]
    /\ inFlight' = [inFlight EXCEPT !.upload = @ - 1]
    /\ UNCHANGED <<gridOverlay, keyPresses, pointerDowns, drawAbandoned>>
    /\ UNCHANGED serviceVars

\* the overlay after handleDrawGrid: without a document only a notice is
\* shown
DrawGridResult(o, app, rowsInput, columnsInput) ==
    IF ~app.pdfFile THEN o
    ELSE drawGrid(o, ParseIntOr(rowsInput, DefaultRows),
                  ParseIntOr(columnsInput, DefaultColumns), Null)

handleDrawGrid(rowsInput, columnsInput) ==
    /\ gridOverlay' =
          DrawGridResult(gridOverlay, AppState, rowsInput, columnsInput)
    /\ UNCHANGED <<AppState, keyPresses, pointerDowns, inFlight, drawAbandoned>>
    /\ UNCHANGED serviceVars

handleClearGrid ==
    /\ gridOverlay' = clearGrid(gridOverlay)
    /\ UNCHANGED <<AppState, keyPresses, pointerDowns, inFlight,
                   drawAbandoned>>
    /\ UNCHANGED serviceVars

handleTemplateMode ==
    /\ gridOverlay' = enableTemplateMode(gridOverlay)
    /\ UNCHANGED <<AppState, keyPresses, pointerDowns, inFlight, drawAbandoned>>
    /\ UNCHANGED serviceVars

\* the overlay after handleApplyTemplate: an incomplete template only
\* shows a notice
ApplyTemplateResult(o) ==
    IF ~isTemplateComplete(o) THEN o
    ELSE [disableTemplateMode(o) EXCEPT !.gridResizeDisabled = TRUE]

handleApplyTemplate ==
    /\ gridOverlay' = ApplyTemplateResult(gridOverlay)
    /\ drawAbandoned' = IF isTemplateComplete(gridOverlay)
                           /\ gridOverlay.isDrawing
                        THEN TRUE ELSE drawAbandoned
    /\ UNCHANGED <<AppState, keyPresses, pointerDowns, inFlight>>
    /\ UNCHANGED serviceVars

handleHeaderTemplateMode ==
    /\ gridOverlay' = enableHeaderTemplateMode(gridOverlay)
    /\ UNCHANGED <<AppState, keyPresses, pointerDowns, inFlight, drawAbandoned>>
    /\ UNCHANGED serviceVars

handleApplyHeaderTemplate ==
    /\ gridOverlay' =
          IF ~isHeaderTemplateComplete(gridOverlay) THEN gridOverlay
          ELSE disableHeaderTemplateMode(
                  [gridOverlay EXCEPT !.headerTemplateApplied = TRUE])
    /\ drawAbandoned' = IF isHeaderTemplateComplete(gridOverlay)
                           /\ gridOverlay.isDrawing
                        THEN TRUE ELSE drawAbandoned
    /\ UNCHANGED <<AppState, keyPresses, pointerDowns, inFlight>>
    /\ UNCHANGED serviceVars

\* the disabled attribute of the two apply buttons
ButtonStates == [btnApplyTemplate : BOOLEAN, btnApplyHeaderTemplate : BOOLEAN]

\* the completion watcher that does not look at the mode
completionWatcherResult_anyMode(o, disabled) ==
    [overlay |-> o,
     disabled |->
        [btnApplyTemplate |->
            IF isTemplateComplete(o) THEN FALSE
            ELSE disabled.btnApplyTemplate,
         btnApplyHeaderTemplate |->
            IF isHeaderTemplateComplete(o) THEN FALSE
            ELSE disabled.btnApplyHeaderTemplate]]

\* one tick of the completion watcher: the overlay it leaves (it assigns to
\* no field of it) and the disabled attributes of the apply buttons
completionWatcherResult(o, disabled) ==
    [overlay |-> o,
     disabled |->
        [btnApplyTemplate |->
            IF o.templateMode /\ isTemplateComplete(o) THEN FALSE
            ELSE disabled.btnApplyTemplate,
         btnApplyHeaderTemplate |->
            IF o.headerTemplateMode /\ isHeaderTemplateComplete(o) THEN FALSE
            ELSE disabled.btnApplyHeaderTemplate]]

completionWatcher ==
    /\ \E disabled \in ButtonStates :
          gridOverlay' = completionWatcherResult(gridOverlay, disabled).overlay
    /\ UNCHANGED <<AppState, keyPresses, pointerDowns, inFlight, drawAbandoned>>
    /\ UNCHANGED serviceVars

\* a canvas coordinate multiplied by the scale instead of divided
ToPdf_multiplies(v, scale) == (v * scale) \div 4

\* a canvas coordinate divided by the scale (the scale is in quarters)
ToPdf(v, scale) == (v * 4) \div scale

convertBox(box, scale) ==
    [x |-> ToPdf(box.x, scale), y |-> ToPdf(box.y, scale),
     width |-> ToPdf(box.width, scale), height |-> ToPdf(box.height, scale)]

\* Array.prototype.map skips the holes of the array
ConvertedPositions(seq, scale) ==
    [i \in 1..Len(seq) |->
        IF seq[i] = Undefined THEN Undefined ELSE ToPdf(seq[i], scale)]

getGridConfig(o) ==
    IF o.grid = Null THEN Null
    ELSE [rows |-> o.grid.rows,
          columns |-> o.grid.columns,
          x |-> ToPdf(o.grid.x, o.pdfScale),
          y |-> ToPdf(o.grid.y, o.pdfScale),
          width |-> ToPdf(o.grid.width, o.pdfScale),
          height |-> ToPdf(o.grid.height, o.pdfScale),
          customColPositions |->
             ConvertedPositions(o.customColPositions, o.pdfScale),
          customRowPositions |->
             ConvertedPositions(o.customRowPositions, o.pdfScale),
          colPositions |-> ConvertedPositions(colPositionsOf(o), o.pdfScale),
          rowPositions |-> ConvertedPositions(rowPositionsOf(o), o.pdfScale)]

\* the null entries are removed from both maps
ConvertedTemplate(o) ==
    [cellTemplate |->
        [b \in {c \in CellBoxes : o.boxes[c] # Null} |->
            convertBox(o.boxes[b], o.pdfScale)],
     headerTemplate |->
        [b \in {h \in HeaderBoxes : o.boxes[h] # Null} |->
            convertBox(o.boxes[b], o.pdfScale)]]

\* getCellTemplate that looks at the cell template only
getCellTemplate_cellOnly(o) ==
    IF o.boxes.voterIdBox = Null THEN Null ELSE ConvertedTemplate(o)

getCellTemplate(o) ==
    LET hasCellTemplate == o.boxes.voterIdBox # Null
        hasHeaderTemplate ==
            o.boxes.boothCenterBox # Null \/ o.boxes.boothAddressBox # Null
    IN IF ~hasCellTemplate /\ ~hasHeaderTemplate THEN Null
       ELSE ConvertedTemplate(o)

\* getGridConfig that converts the stored grid rectangle in place
getGridConfigCall_inPlace(o) ==
    [overlay |-> IF o.grid = Null THEN o
                 ELSE [o EXCEPT !.grid.x = ToPdf(o.grid.x, o.pdfScale),
                                !.grid.y = ToPdf(o.grid.y, o.pdfScale)],
     returns |-> getGridConfig(o)]

\* a call of getGridConfig: the overlay it leaves and the value it returns
\* (the method assigns to no field)
getGridConfigCall(o) == [overlay |-> o, returns |-> getGridConfig(o)]

\* a call of getCellTemplate: the overlay it leaves and the value it
\* returns (the method assigns to no field; convertBox builds new objects)
getCellTemplateCall(o) == [overlay |-> o, returns |-> getCellTemplate(o)]

\* getGridConfig() returns null
GridConfigIsNull(o) == getGridConfig(o) = Null

\* getCellTemplate() returns null
CellTemplateIsNull(o) == getCellTemplate(o) = Null

\* handleExtract that does not test the upload's file id
handleExtractSends_withoutFileId(app, o) ==
    /\ app.pdfFile
    /\ ~GridConfigIsNull(o)
    /\ ~CellTemplateIsNull(o)

\* the four tests handleExtract makes before its first request: a PDF is
\* loaded, the upload returned a file id, and both exports are non-null
handleExtractSends(app, o) ==
    /\ app.pdfFile
    /\ app.fileId
    /\ ~GridConfigIsNull(o)
    /\ ~CellTemplateIsNull(o)

\* handleExtract up to its first await; a failed precondition only
\* shows a notice
handleExtract ==
    /\ IF handleExtractSends(AppState, gridOverlay)
       THEN /\ inFlight.configure < MaxInFlight
            /\ inFlight' = [inFlight EXCEPT !.configure = @ + 1]
       ELSE UNCHANGED inFlight
    /\ UNCHANGED <<gridOverlay, AppState, keyPresses, pointerDowns, drawAbandoned>>
    /\ UNCHANGED serviceVars

\* API.configureExtraction settles; on success the handler stores the
\* configuration id and awaits API.extractGrid, on failure the catch block
\* shows a notice: the overlay is assigned in neither case
configureSettledResult(o, ok) == o

configureSettled(ok) ==
    /\ inFlight.configure > 0
    /\ ok => inFlight.extract < MaxInFlight
    /\ inFlight' = [inFlight EXCEPT
                       !.configure = @ - 1,
                       !.extract = IF ok THEN @ + 1 ELSE @]
    /\ gridOverlay' = configureSettledResult(gridOverlay, ok)
    /\ UNCHANGED <<AppState, keyPresses, pointerDowns, drawAbandoned>>
    /\ UNCHANGED serviceVars

\* the rest of handleExtract that keeps the cell-scoped regions
extractSettledResult_keepsCellBoxes(o, ok) ==
    IF ok
    THEN enableHeaderTemplateMode(
            [o EXCEPT !.boxes = [b \in AllBoxes |->
                                    IF b \in CellBoxes THEN o.boxes[b]
                                    ELSE Null],
                      !.headerTemplateApplied = FALSE])
    ELSE o

\* the rest of handleExtract once API.extractGrid has settled: on success
\* the eleven regions are cleared and header template mode is entered, on
\* failure the catch block shows a notice
extractSettledResult(o, ok) ==
    IF ok
    THEN enableHeaderTemplateMode(
            [o EXCEPT !.boxes = NoBoxes,
                      !.headerTemplateApplied = FALSE])
    ELSE o

extractSettled(ok) ==
    /\ inFlight.extract > 0
    /\ inFlight' = [inFlight EXCEPT !.extract = @ - 1]
    /\ gridOverlay' = extractSettledResult(gridOverlay, ok)
    /\ UNCHANGED <<AppState, keyPresses, pointerDowns, drawAbandoned>>
    /\ UNCHANGED serviceVars

----------------------------------------------------------------------------
(* PDFViewer: pages, zoom and the asynchronous render                      *)

\* zoomOut lowers the scale only while it is above 0.5, in quarters
MinScale == 2

\* page.getViewport: the page's size in pixels at a scale
Viewport(scale) ==
    [width |-> (FirstRender.width * scale) \div FirstRender.scale,
     height |-> (FirstRender.height * scale) \div FirstRender.scale]

\* renderPage up to its first await: the viewer and the suspended call it
\* leaves; a call during a render, without a document or for a page out of
\* range returns at once
renderPage(v, call, pageNum) ==
    IF v.rendering \/ ~v.pdfDoc THEN [viewer |-> v, call |-> call]
    ELSE IF pageNum < 1 \/ pageNum > v.totalPages
    THEN [viewer |-> v, call |-> call]
    ELSE [viewer |-> [v EXCEPT !.rendering = TRUE, !.currentPage = pageNum],
          call |-> [awaiting |-> "getPage", pageNum |-> pageNum,
                    viewport |-> Null]]

\* loadPDF up to its await of the document: the previous document is
\* destroyed
loadPDF ==
    /\ ~pdfViewer.loadingTask
    /\ pdfViewer' = [pdfViewer EXCEPT !.loadingTask = TRUE, !.pdfDoc = FALSE]
    /\ UNCHANGED <<renderCall, azureVision, detectCalls, users, signups>>
    /\ UNCHANGED pageVars

\* the document of loadPDF settles: on success page 1 is rendered
loadSettled(ok, pages) ==
    /\ pdfViewer.loadingTask
    /\ LET loaded == [pdfViewer EXCEPT !.loadingTask = FALSE,
                                      !.pdfDoc = TRUE,
                                      !.totalPages = pages]
           started == renderPage(loaded, renderCall, 1)
       IN IF ok
          THEN /\ pdfViewer' = started.viewer
               /\ renderCall' = started.call
          ELSE /\ pdfViewer' = [pdfViewer EXCEPT !.loadingTask = FALSE]
               /\ UNCHANGED renderCall
    /\ UNCHANGED <<azureVision, detectCalls, users, signups>>
    /\ UNCHANGED pageVars

\* handleZoomIn: the scale is raised, then the current page is rendered
handleZoomIn ==
    /\ pdfViewer.scale < MaxScale
    /\ LET zoomed == [pdfViewer EXCEPT !.scale = @ + 1]
           started == renderPage(zoomed, renderCall, zoomed.currentPage)
       IN /\ pdfViewer' = started.viewer
          /\ renderCall' = started.call
    /\ UNCHANGED <<azureVision, detectCalls, users, signups>>
    /\ UNCHANGED pageVars

\* handleZoomOut: above the smallest scale, the scale is lowered and the
\* current page is rendered
handleZoomOut ==
    /\ IF pdfViewer.scale > MinScale
       THEN LET zoomed == [pdfViewer EXCEPT !.scale = @ - 1]
                started == renderPage(zoomed, renderCall, zoomed.currentPage)
            IN /\ pdfViewer' = started.viewer
               /\ renderCall' = started.call
       ELSE UNCHANGED <<pdfViewer, renderCall>>
    /\ UNCHANGED <<azureVision, detectCalls, users, signups>>
    /\ UNCHANGED pageVars

handleNextPage ==
    /\ IF pdfViewer.currentPage < pdfViewer.totalPages
       THEN LET started == renderPage(pdfViewer, renderCall,
                                      pdfViewer.currentPage + 1)
            IN /\ pdfViewer' = started.viewer
               /\ renderCall' = started.call
       ELSE UNCHANGED <<pdfViewer, renderCall>>
    /\ UNCHANGED <<azureVision, detectCalls, users, signups>>
    /\ UNCHANGED pageVars

handlePrevPage ==
    /\ IF pdfViewer.currentPage > 1
       THEN LET started == renderPage(pdfViewer, renderCall,
                                      pdfViewer.currentPage - 1)
            IN /\ pdfViewer' = started.viewer
               /\ renderCall' = started.call
       ELSE UNCHANGED <<pdfViewer, renderCall>>
    /\ UNCHANGED <<azureVision, detectCalls, users, signups>>
    /\ UNCHANGED pageVars

\* pdfDoc.getPage settles: on success the viewport is taken at the scale
\* the viewer has now and the canvas is resized; on failure the call ends
getPageSettled(ok) ==
    /\ renderCall # Null
    /\ renderCall.awaiting = "getPage"
    /\ IF ok
       THEN /\ renderCall' = [renderCall EXCEPT
                                 !.awaiting = "render",
                                 !.viewport = Viewport(pdfViewer.scale)]
            /\ pdfViewer' = [pdfViewer EXCEPT
                                !.canvas = Viewport(pdfViewer.scale)]
       ELSE /\ renderCall' = Null
            /\ pdfViewer' = [pdfViewer EXCEPT !.rendering = FALSE]
    /\ UNCHANGED <<azureVision, detectCalls, users, signups>>
    /\ UNCHANGED pageVars

\* page.render settles: on success the overlay is notified with the
\* viewport's size and the scale the viewer has now; the call ends
renderSettled(ok) ==
    /\ renderCall # Null
    /\ renderCall.awaiting = "render"
    /\ renderCall' = Null
    /\ pdfViewer' = [pdfViewer EXCEPT !.rendering = FALSE]
    /\ gridOverlay' =
          IF ok
          THEN handlePDFPageRenderedResult(
                  gridOverlay,
                  [width |-> renderCall.viewport.width,
                   height |-> renderCall.viewport.height,
                   scale |-> pdfViewer.scale])
          ELSE gridOverlay
    /\ UNCHANGED <<AppState, keyPresses, pointerDowns, inFlight, drawAbandoned>>
    /\ UNCHANGED <<azureVision, detectCalls, users, signups>>

----------------------------------------------------------------------------
(* AzureVisionIntegration: auto-detection                                  *)

\* autoDetectRegions whose test of the flag is inside the try block, so
\* that the finally block also runs for a rejected call
autoDetectRegionsCall_resetsFlag(av, o) ==
    IF av.isDetecting
    THEN [azureVision |-> [av EXCEPT !.isDetecting = FALSE],
          overlay |-> o, throws |-> TRUE]
    ELSE [azureVision |-> [av EXCEPT !.isDetecting = TRUE],
          overlay |-> o, throws |-> FALSE]

\* autoDetectRegions up to its await: the objects it leaves and whether it
\* throws; the test of the flag comes before the try block
autoDetectRegionsCall(av, o) ==
    IF av.isDetecting
    THEN [azureVision |-> av, overlay |-> o, throws |-> TRUE]
    ELSE [azureVision |-> [av EXCEPT !.isDetecting = TRUE],
          overlay |-> o, throws |-> FALSE]

autoDetectRegions ==
    /\ LET call == autoDetectRegionsCall(azureVision, gridOverlay)
       IN /\ azureVision' = call.azureVision
          /\ gridOverlay' = call.overlay
          /\ IF call.throws
             THEN detectCalls' = [detectCalls EXCEPT !.rejected = TRUE]
             ELSE /\ detectCalls.awaiting <= MaxInFlight
                  /\ detectCalls' = [detectCalls EXCEPT !.awaiting = @ + 1]
    /\ UNCHANGED <<AppState, keyPresses, pointerDowns, inFlight, drawAbandoned>>
    /\ UNCHANGED <<pdfViewer, renderCall, users, signups>>

\* applyDetectedRegions: a detected grid is laid out and the boxes are left
\* to a timer, otherwise the boxes are applied at once
applyDetectedRegions(o, result) ==
    IF result.grid.gridDetected /\ result.grid.gridBoundary # Null
    THEN drawGrid(o, ParseIntOr(result.grid.gridRows, 4),
                  ParseIntOr(result.grid.gridColumns, 3),
                  result.grid.gridBoundary)
    ELSE applyTemplateBoxesResult(o, result.detected)

\* API.detectRegions settles: a result that reports success is stored and
\* applied; the finally block resets the flag in every case
detectSettled(resolved, result) ==
    /\ detectCalls.awaiting > 0
    /\ LET applied == resolved /\ result.success
           deferred == /\ applied
                       /\ result.grid.gridDetected
                       /\ result.grid.gridBoundary # Null
       IN /\ azureVision' =
                [azureVision EXCEPT
                    !.isDetecting = FALSE,
                    !.lastDetectionResult =
                        IF applied THEN result.detected ELSE @]
          /\ gridOverlay' =
                IF applied THEN applyDetectedRegions(gridOverlay, result)
                ELSE gridOverlay
          /\ detectCalls' =
                [detectCalls EXCEPT
                    !.awaiting = @ - 1,
                    !.timers = IF deferred THEN @ \cup {result.detected}
                               ELSE @]
    /\ UNCHANGED <<AppState, keyPresses, pointerDowns, inFlight, drawAbandoned>>
    /\ UNCHANGED <<pdfViewer, renderCall, users, signups>>

\* the timer of applyDetectedRegions fires
detectionTimer ==
    /\ \E detected \in detectCalls.timers :
          /\ gridOverlay' = applyTemplateBoxesResult(gridOverlay, detected)
          /\ detectCalls' = [detectCalls EXCEPT !.timers = @ \ {detected}]
    /\ UNCHANGED <<AppState, keyPresses, pointerDowns, inFlight, drawAbandoned>>
    /\ UNCHANGED <<pdfViewer, renderCall, azureVision, users, signups>>

----------------------------------------------------------------------------
(* The server: signup                                                      *)

\* a request ends with a response
Respond(r, status) ==
    signups' = [signups EXCEPT ![r].pc = "done", ![r].status = status]

\* signup up to its first await: a body without email or password is
\* answered 400, otherwise the collection is asked for the email
signupReceived(r, email, password) ==
    /\ signups[r].pc = "none"
    /\ IF email = "" \/ password = ""
       THEN signups' = [signups EXCEPT
                           ![r] = [pc |-> "done", email |-> email,
                                   status |-> 400]]
       ELSE signups' = [signups EXCEPT
                           ![r] = [pc |-> "findOne", email |-> email,
                                   status |-> 0]]
    /\ UNCHANGED <<pdfViewer, renderCall, azureVision, detectCalls, users>>
    /\ UNCHANGED pageVars

\* User.findOne settles: a record with the email is answered 409, none
\* goes on to hash the password; an error is answered 500
findOneSettled(r, ok) ==
    /\ signups[r].pc = "findOne"
    /\ IF ~ok THEN Respond(r, 500)
       ELSE IF users[signups[r].email] > 0 THEN Respond(r, 409)
       ELSE signups' = [signups EXCEPT ![r].pc = "hash"]
    /\ UNCHANGED <<pdfViewer, renderCall, azureVision, detectCalls, users>>
    /\ UNCHANGED pageVars

\* bcrypt.hash settles
hashSettled(r, ok) ==
    /\ signups[r].pc = "hash"
    /\ IF ok THEN signups' = [signups EXCEPT ![r].pc = "create"]
       ELSE Respond(r, 500)
    /\ UNCHANGED <<pdfViewer, renderCall, azureVision, detectCalls, users>>
    /\ UNCHANGED pageVars

\* User.create settles: the record is inserted and the request answered
\* 201, or the collection rejects the insert and the request is answered 500
createSettled(r, ok) ==
    /\ signups[r].pc = "create"
    /\ IF ok
       THEN /\ users' = [users EXCEPT ![signups[r].email] = @ + 1]
            /\ Respond(r, 201)
       ELSE /\ UNCHANGED users
            /\ Respond(r, 500)
    /\ UNCHANGED <<pdfViewer, renderCall, azureVision, detectCalls>>
    /\ UNCHANGED pageVars

----------------------------------------------------------------------------
(* Specification                                                           *)

\* the whole interaction: pointer, keyboard, layout and template commands
Next ==
    \/ \E p \in DrawPoints : handleMouseDown(Px(p[1]), Px(p[2]))
    \/ \E p \in DrawPoints : handleMouseMove(Px(p[1]), Px(p[2]))
    \/ handleMouseUp
    \/ PointerLeave
    \/ \E ev \in KeyEvents : handleKeyDown(ev)
    \/ loadPDFFile
    \/ \E r \in TemplateRows, c \in TemplateColumns : handleDrawGrid(r, c)
    \/ handleClearGrid
    \/ handleTemplateMode
    \/ handleApplyTemplate
    \/ handleHeaderTemplateMode
    \/ handleApplyHeaderTemplate

Spec == Init /\ [][Next]_vars

\* the grid alone: layout, whole-grid drag, corner resize, boundary drag
\* and the keyboard adjustment
NextGrid ==
    \/ \E p \in GridPoints : handleMouseDown(Px(p[1]), Px(p[2]))
    \/ \E p \in GridPoints : handleMouseMove(Px(p[1]), Px(p[2]))
    \/ handleMouseUp
    \/ \E ev \in GridKeyEvents : handleKeyDown(ev)
    \/ loadPDFFile
    \/ \E r \in RowInputs, c \in ColumnInputs : handleDrawGrid(r, c)
    \/ handleClearGrid

SpecGrid == Init /\ [][NextGrid]_vars

\* the two templates: modes, field selection, drawing and applying
NextTemplate ==
    \/ \E p \in TemplatePoints : handleMouseDown(Px(p[1]), Px(p[2]))
    \/ \E p \in TemplatePoints : handleMouseMove(Px(p[1]), Px(p[2]))
    \/ handleMouseUp
    \/ \E ev \in TemplateKeyEvents : handleKeyDown(ev)
    \/ loadPDFFile
    \/ \E r \in TemplateRows, c \in TemplateColumns : handleDrawGrid(r, c)
    \/ handleClearGrid
    \/ handleTemplateMode
    \/ handleApplyTemplate
    \/ handleHeaderTemplateMode
    \/ handleApplyHeaderTemplate

SpecTemplate == Init /\ [][NextTemplate]_vars

\* regions that are not drawn: the built-in template and detected boxes
NextQuick ==
    \/ \E p \in QuickPoints : handleMouseDown(Px(p[1]), Px(p[2]))
    \/ \E p \in QuickPoints : handleMouseMove(Px(p[1]), Px(p[2]))
    \/ handleMouseUp
    \/ loadPDFFile
    \/ \E r \in TemplateRows, c \in ColumnInputs : handleDrawGrid(r, c)
    \/ handleClearGrid
    \/ applyQuickTemplate
    \/ \E d \in DetectedRegions : applyTemplateBoxes(d)

SpecQuick == Init /\ [][NextQuick]_vars

\* the page view and the export: page changes and zoom changes between the
\* steps of defining a grid and both templates
NextView ==
    \/ \E p \in ViewPoints : handleMouseDown(Px(p[1]), Px(p[2]))
    \/ \E p \in ViewPoints : handleMouseMove(Px(p[1]), Px(p[2]))
    \/ handleMouseUp
    \/ loadPDFFile
    \/ \E ev \in RenderEvents : handlePDFPageRendered(ev)
    \/ \E r \in TemplateRows, c \in TemplateColumns : handleDrawGrid(r, c)
    \/ handleClearGrid
    \/ handleTemplateMode
    \/ handleApplyTemplate
    \/ handleHeaderTemplateMode
    \/ handleApplyHeaderTemplate
    \/ completionWatcher

SpecView == Init /\ [][NextView]_vars

\* the replication: a boundary drag that makes the cells unequal, then the
\* cell template drawn and applied
NextReplicate ==
    \/ \E p \in DrawPoints : handleMouseDown(Px(p[1]), Px(p[2]))
    \/ \E p \in DrawPoints : handleMouseMove(Px(p[1]), Px(p[2]))
    \/ handleMouseUp
    \/ loadPDFFile
    \/ \E r \in TemplateRows, c \in TemplateColumns : handleDrawGrid(r, c)
    \/ handleClearGrid
    \/ handleTemplateMode
    \/ handleApplyTemplate

SpecReplicate == Init /\ [][NextReplicate]_vars

\* the boundaries: layout, boundary drag, corner resize and whole-grid drag
NextLines ==
    \/ \E p \in LinePoints : handleMouseDown(Px(p[1]), Px(p[2]))
    \/ \E p \in LinePoints : handleMouseMove(Px(p[1]), Px(p[2]))
    \/ handleMouseUp
    \/ loadPDFFile
    \/ \E r \in RowInputs, c \in ColumnInputs : handleDrawGrid(r, c)
    \/ handleClearGrid

SpecLines == Init /\ [][NextLines]_vars

\* every writer of the cell-scoped regions: drawing in template mode, the
\* built-in template and detected boxes, with the template commands
NextRegions ==
    \/ \E p \in QuickPoints : handleMouseDown(Px(p[1]), Px(p[2]))
    \/ \E p \in QuickPoints : handleMouseMove(Px(p[1]), Px(p[2]))
    \/ handleMouseUp
    \/ loadPDFFile
    \/ \E r \in TemplateRows, c \in ColumnInputs : handleDrawGrid(r, c)
    \/ handleClearGrid
    \/ handleTemplateMode
    \/ handleApplyTemplate
    \/ applyQuickTemplate
    \/ \E d \in DetectedRegions : applyTemplateBoxes(d)

SpecRegions == Init /\ [][NextRegions]_vars

\* extraction: the upload, both templates and the two requests of
\* handleExtract, with every other handler running between the awaits
NextExtract ==
    \/ \E p \in ViewPoints : handleMouseDown(Px(p[1]), Px(p[2]))
    \/ \E p \in ViewPoints : handleMouseMove(Px(p[1]), Px(p[2]))
    \/ handleMouseUp
    \/ loadPDFFile
    \/ \E ok \in BOOLEAN : uploadSettled(ok)
    \/ \E r \in TemplateRows, c \in TemplateColumns : handleDrawGrid(r, c)
    \/ handleClearGrid
    \/ handleTemplateMode
    \/ handleApplyTemplate
    \/ handleHeaderTemplateMode
    \/ handleApplyHeaderTemplate
    \/ handleExtract
    \/ \E ok \in BOOLEAN : configureSettled(ok)
    \/ \E ok \in BOOLEAN : extractSettled(ok)

SpecExtract == Init /\ [][NextExtract]_vars

\* the viewer: documents, pages and zoom, with renders completing in between
NextZoom ==
    \/ loadPDF
    \/ \E ok \in BOOLEAN, pages \in Documents : loadSettled(ok, pages)
    \/ handleZoomIn
    \/ handleZoomOut
    \/ handleNextPage
    \/ handlePrevPage
    \/ \E ok \in BOOLEAN : getPageSettled(ok)
    \/ \E ok \in BOOLEAN : renderSettled(ok)

SpecZoom == Init /\ [][NextZoom]_vars

\* auto-detection: calls, their results and timers, with the layout commands
NextDetect ==
    \/ loadPDFFile
    \/ \E r \in TemplateRows, c \in TemplateColumns : handleDrawGrid(r, c)
    \/ handleClearGrid
    \/ autoDetectRegions
    \/ \E resolved \in BOOLEAN, result \in DetectionResults :
          detectSettled(resolved, result)
    \/ detectionTimer

SpecDetect == Init /\ [][NextDetect]_vars

\* the server: signup requests handled concurrently
NextSignup ==
    \/ \E r \in Requests, email \in Emails \cup {""}, password \in Passwords :
          signupReceived(r, email, password)
    \/ \E r \in Requests, ok \in BOOLEAN : findOneSettled(r, ok)
    \/ \E r \in Requests, ok \in BOOLEAN : hashSettled(r, ok)
    \/ \E r \in Requests, ok \in BOOLEAN : createSettled(r, ok)

SpecSignup == Init /\ [][NextSignup]_vars

----------------------------------------------------------------------------
(* Vocabulary of the properties                                            *)

AllPoints == GridPoints \cup DrawPoints \cup LinePoints \cup TemplatePoints
             \cup QuickPoints \cup ViewPoints
AllKeyEvents == GridKeyEvents \cup KeyEvents \cup TemplateKeyEvents

\* the step is a pointer event
PointerStep ==
    \/ \E p \in AllPoints : handleMouseDown(Px(p[1]), Px(p[2]))
    \/ \E p \in AllPoints : handleMouseMove(Px(p[1]), Px(p[2]))
    \/ handleMouseUp

\* the step is a key event
KeyStep_ == \E ev \in AllKeyEvents : handleKeyDown(ev)

\* the step is an arrow key that reaches the grid adjustment
ArrowKeyStep ==
    \E ev \in AllKeyEvents :
       /\ ev.key \in {"ArrowUp", "ArrowDown", "ArrowLeft", "ArrowRight"}
       /\ KeyAdjustsGrid(gridOverlay)
       /\ handleKeyDown(ev)

\* the step is a pointer-move that drags the whole grid
GridDragStep ==
    \E p \in AllPoints :
       /\ MouseMoveBranch(gridOverlay) = "drag"
       /\ handleMouseMove(Px(p[1]), Px(p[2]))

GridExists == gridOverlay.grid # Null

\* a grid with at least one row and one column
WellFormedGrid ==
    /\ GridExists
    /\ gridOverlay.grid.rows >= 1
    /\ gridOverlay.grid.columns >= 1

\* grid rectangle and both boundary lists are the same after the step
GeometryUnchanged ==
    /\ gridOverlay'.grid = gridOverlay.grid
    /\ gridOverlay'.customRowPositions = gridOverlay.customRowPositions
    /\ gridOverlay'.customColPositions = gridOverlay.customColPositions

Shifted(seq, d) == [i \in 1..Len(seq) |-> seq[i] + d]

StrictlyInside(seq, lo, hi) ==
    \A i \in 1..Len(seq) : lo < seq[i] /\ seq[i] < hi

----------------------------------------------------------------------------
(* Properties                                                              *)

\* C1: the two template-definition modes are mutually exclusive: in every
\* reachable state templateMode and headerTemplateMode are not both true
\* (a command to enter one mode while the other is active is rejected).
C1_ModesMutuallyExclusive ==
    ~(gridOverlay.templateMode /\ gridOverlay.headerTemplateMode)

\* C2: whenever a grid exists, every row boundary is strictly between
\* grid.y and grid.y + grid.height and every column boundary is strictly
\* between grid.x and grid.x + grid.width.  (Stated for grids with
\* positive row and column counts, which C10 treats separately.)
C2_BoundariesInsideGrid ==
    WellFormedGrid =>
       /\ StrictlyInside(gridOverlay.customRowPositions, gridOverlay.grid.y,
                         gridOverlay.grid.y + gridOverlay.grid.height)
       /\ StrictlyInside(gridOverlay.customColPositions, gridOverlay.grid.x,
                         gridOverlay.grid.x + gridOverlay.grid.width)

\* C3: translating the whole grid, by dragging its interior or by an arrow
\* key, moves the origin by (dx, dy), shifts every column boundary by dx
\* and every row boundary by dy, and leaves width, height, rows and
\* columns unchanged.
C3_TranslationShiftsBoundaries ==
    [][(WellFormedGrid /\ (GridDragStep \/ ArrowKeyStep)) =>
          LET dx == gridOverlay'.grid.x - gridOverlay.grid.x
              dy == gridOverlay'.grid.y - gridOverlay.grid.y
          IN /\ gridOverlay'.grid =
                   [gridOverlay.grid EXCEPT !.x = @ + dx, !.y = @ + dy]
             /\ gridOverlay'.customColPositions =
                   Shifted(gridOverlay.customColPositions, dx)
             /\ gridOverlay'.customRowPositions =
                   Shifted(gridOverlay.customRowPositions, dy)]_vars

\* C4: once the cell template has been applied (gridResizeDisabled), no
\* pointer event and no key event changes grid.width, grid.height or a
\* boundary position.
C4_FrozenGridKeepsSize ==
    [][(gridOverlay.gridResizeDisabled /\ GridExists
           /\ (PointerStep \/ KeyStep_)) =>
          /\ gridOverlay'.grid.width = gridOverlay.grid.width
          /\ gridOverlay'.grid.height = gridOverlay.grid.height
          /\ gridOverlay'.customRowPositions = gridOverlay.customRowPositions
          /\ gridOverlay'.customColPositions = gridOverlay.customColPositions
      ]_vars

\* C5: once the rubber band in progress has been abandoned (a mode-exit
\* command arrived or the pointer left the canvas), no later event stores
\* it into a cell-scoped or page-scoped region.
C5_AbandonedDrawNeverCommitted ==
    [][drawAbandoned =>
          \A b \in AllBoxes :
             \/ gridOverlay'.boxes[b] = gridOverlay.boxes[b]
             \/ gridOverlay'.boxes[b] = Null]_vars

\* C6: at most one of the in-progress flags isDrawing, isDragging,
\* isResizing, isDraggingLine is true in every reachable state.
C6_OneGestureAtATime ==
    Cardinality({f \in {"isDrawing", "isDragging", "isResizing",
                        "isDraggingLine"} : gridOverlay[f]}) <= 1

\* C7: while cell-template mode or page-template mode is active, no
\* pointer event changes the grid rectangle or a boundary position.
C7_ModesFreezeGeometry ==
    [][((gridOverlay.templateMode \/ gridOverlay.headerTemplateMode)
           /\ PointerStep) => GeometryUnchanged]_vars

\* C8: an arrow key or a +/- key changes the grid only when a grid exists,
\* no template mode is active and the grid is not frozen; in every other
\* state the key leaves the grid rectangle and all boundaries unchanged.
C8_KeysOnlyWhenIdleAndUnfrozen ==
    [][(KeyStep_ /\ ~(/\ GridExists
                      /\ ~gridOverlay.templateMode
                      /\ ~gridOverlay.headerTemplateMode
                      /\ ~gridOverlay.gridResizeDisabled))
          => GeometryUnchanged]_vars

\* C9: whenever a grid exists after any resizing operation (corner drag or
\* keyboard shrink), grid.width >= 100 and grid.height >= 100.  (Every
\* grid this specification lays out starts at 216 x 197.)
C9_MinimumGridSize ==
    WellFormedGrid =>
       /\ gridOverlay.grid.width >= Px(MinGridSize)
       /\ gridOverlay.grid.height >= Px(MinGridSize)

\* C10: layout creates no grid when rows < 1 or columns < 1: a grid that
\* exists always has rows >= 1 and columns >= 1.
C10_GridHasPositiveCounts ==
    GridExists => gridOverlay.grid.rows >= 1 /\ gridOverlay.grid.columns >= 1

----------------------------------------------------------------------------
(* Vocabulary of the layout and boundary properties                        *)

\* row and column counts of the layouts the properties examine
LayoutRows == RowInputs \cup TemplateRows \cup {1, 3}
LayoutColumns == ColumnInputs \cup TemplateColumns \cup {1}

\* a layout command creates a grid in this state
LayoutActs ==
    /\ AppState.pdfFile
    /\ gridOverlay.canvas.width # 0
    /\ gridOverlay.canvas.height # 0

\* a grid with at least one row and one column
WellFormed(o) == o.grid # Null /\ o.grid.rows >= 1 /\ o.grid.columns >= 1

\* the rows * columns cells of o tile its outer rectangle: every cell is
\* derivable and not empty; the cells of a row run edge to edge from the
\* left to the right side and the cells of a column from the top to the
\* bottom side, so that the union is the outer rectangle; cells of one
\* column have the same horizontal span and cells of one row the same
\* vertical span, and the spans of different columns, and of different
\* rows, share no interior point, so that no two cells overlap
Tiles(o) ==
    LET g == o.grid
        rowIds == 0..(g.rows - 1)
        colIds == 0..(g.columns - 1)
    IN /\ Len(colPositionsOf(o)) = g.columns + 1
       /\ Len(rowPositionsOf(o)) = g.rows + 1
       /\ \A cell \in {[r \in rowIds, c \in colIds |-> cellRect(o, r, c)]} :
             /\ \A r \in rowIds, c \in colIds :
                   /\ cell[r, c].width > 0 /\ cell[r, c].height > 0
                   /\ cell[r, c].x = cell[0, c].x
                   /\ cell[r, c].width = cell[0, c].width
                   /\ cell[r, c].y = cell[r, 0].y
                   /\ cell[r, c].height = cell[r, 0].height
             /\ cell[0, 0].x = g.x
             /\ cell[0, 0].y = g.y
             /\ cell[0, g.columns - 1].x + cell[0, g.columns - 1].width
                   = g.x + g.width
             /\ cell[g.rows - 1, 0].y + cell[g.rows - 1, 0].height
                   = g.y + g.height
             /\ \A c \in colIds \ {g.columns - 1} :
                   cell[0, c].x + cell[0, c].width = cell[0, c + 1].x
             /\ \A r \in rowIds \ {g.rows - 1} :
                   cell[r, 0].y + cell[r, 0].height = cell[r + 1, 0].y
             /\ \A c1 \in colIds, c2 \in colIds :
                   c1 < c2 =>
                      cell[0, c1].x + cell[0, c1].width <= cell[0, c2].x
             /\ \A r1 \in rowIds, r2 \in rowIds :
                   r1 < r2 =>
                      cell[r1, 0].y + cell[r1, 0].height <= cell[r2, 0].y

\* boundary i of each axis is at origin + i * size / count, stated without
\* a division
UniformlySpaced(o) ==
    LET g == o.grid
    IN /\ Len(o.customColPositions) = g.columns - 1
       /\ Len(o.customRowPositions) = g.rows - 1
       /\ \A i \in 1..(g.columns - 1) :
             o.customColPositions[i] * g.columns
                = g.x * g.columns + i * g.width
       /\ \A i \in 1..(g.rows - 1) :
             o.customRowPositions[i] * g.rows = g.y * g.rows + i * g.height

\* 3 rows x 3 columns laid out over the rectangle (0, 0, 300, 300)
ThreeByThree(o) ==
    drawGrid(o, 3, 3, [x |-> 0, y |-> 0,
                       width |-> Px(300), height |-> Px(300)])

----------------------------------------------------------------------------
(* Properties of the layout and of the boundaries                          *)

\* C11: immediately after a layout with rows >= 1 and columns >= 1, the
\* rows * columns cells derived from the boundary lists tile the outer
\* rectangle: adjacent cells share an edge, no two cells overlap and their
\* union is the outer rectangle.  (Stated of the layout command issued in
\* any reachable state.)
C11_LayoutTilesOuterRectangle ==
    \A r \in LayoutRows, c \in LayoutColumns :
       \A after \in {DrawGridResult(gridOverlay, AppState, r, c)} :
          (LayoutActs /\ WellFormed(after)) => Tiles(after)

\* a grid of 2 rows and 3 columns as the layout leaves it on a 240 x 240
\* canvas
C11_Witness ==
    /\ GridExists
    /\ gridOverlay.grid = [rows |-> 2, columns |-> 3, x |-> Px(12),
                           y |-> Px(24), width |-> Px(216),
                           height |-> Px(197)]
    /\ gridOverlay.customColPositions = <<Px(84), Px(156)>>
    /\ gridOverlay.customRowPositions = <<Px(24) + Px(197) \div 2>>
    /\ Tiles(gridOverlay)

\* C12: after a layout, and after every corner-resize step, the boundaries
\* are uniformly spaced over the current rectangle (a position set by a
\* boundary drag is discarded); 3 x 3 over (0, 0, 300, 300) gives 100 and
\* 200 on each axis and cell (1, 1) = (100, 100, 100, 100).  (Stated of
\* the layout command and of the resizing pointer-move issued in any
\* reachable state.)
C12_LayoutAndResizeSpaceUniformly ==
    /\ \A r \in LayoutRows, c \in LayoutColumns :
          \A after \in {DrawGridResult(gridOverlay, AppState, r, c)} :
             (LayoutActs /\ WellFormed(after)) => UniformlySpaced(after)
    /\ \A p \in AllPoints :
          \A after \in {MouseMoveResult(gridOverlay, Px(p[1]), Px(p[2]))} :
             (MouseMoveBranch(gridOverlay) = "resize" /\ WellFormed(after))
                => UniformlySpaced(after)
    /\ LayoutActs =>
          /\ ThreeByThree(gridOverlay).customColPositions
                = <<Px(100), Px(200)>>
          /\ ThreeByThree(gridOverlay).customRowPositions
                = <<Px(100), Px(200)>>
          /\ cellRect(ThreeByThree(gridOverlay), 1, 1)
                = [x |-> Px(100), y |-> Px(100),
                   width |-> Px(100), height |-> Px(100)]

\* a corner resize in progress that has changed the width of a grid of
\* 3 columns, its boundaries uniform over the new rectangle
C12_Witness ==
    /\ WellFormedGrid
    /\ gridOverlay.isResizing
    /\ gridOverlay.grid.columns = 3
    /\ gridOverlay.grid.width # gridOverlay.gridStartWidth
    /\ gridOverlay.customColPositions # <<Px(84), Px(156)>>
    /\ UniformlySpaced(gridOverlay)

\* C13: in every state in which all boundaries are strictly inside the
\* outer rectangle (also after boundaries were dragged one after another),
\* every derived cell rectangle cellRect(r, c) has width > 0 and
\* height > 0.
C13_CellsNotEmpty ==
    (/\ WellFormedGrid
     /\ Len(gridOverlay.customColPositions) = gridOverlay.grid.columns - 1
     /\ Len(gridOverlay.customRowPositions) = gridOverlay.grid.rows - 1
     /\ StrictlyInside(gridOverlay.customColPositions, gridOverlay.grid.x,
                       gridOverlay.grid.x + gridOverlay.grid.width)
     /\ StrictlyInside(gridOverlay.customRowPositions, gridOverlay.grid.y,
                       gridOverlay.grid.y + gridOverlay.grid.height))
    => \A r \in 0..(gridOverlay.grid.rows - 1),
          c \in 0..(gridOverlay.grid.columns - 1) :
          /\ cellRect(gridOverlay, r, c).width > 0
          /\ cellRect(gridOverlay, r, c).height > 0

\* the boundary list `after` differs from `before` at most at 0-based
\* index `index`, and a changed value at that index is strictly between lo
\* and hi
OnlyBoundaryMoved(before, after, index, lo, hi) ==
    /\ Len(after) >= Len(before)
    /\ \A i \in 1..Len(after) :
          i # index + 1 => (i <= Len(before) /\ after[i] = before[i])
    /\ after # before =>
          /\ index + 1 <= Len(after)
          /\ lo < after[index + 1]
          /\ after[index + 1] < hi

\* C14: a boundary drag step moves only the dragged boundary: the position
\* it stores is strictly inside the outer rectangle's span on its axis (a
\* pointer on or outside the outer edge never puts the boundary on or
\* outside the edge), and every other boundary and the grid rectangle are
\* unchanged.  (Stated of the boundary-dragging pointer-move issued in any
\* reachable state.)
C14_BoundaryDragMovesOneBoundary ==
    \A p \in AllPoints :
       \A after \in {MouseMoveResult(gridOverlay, Px(p[1]), Px(p[2]))} :
          (MouseMoveBranch(gridOverlay) = "line" /\ GridExists) =>
             /\ after.grid = gridOverlay.grid
             /\ IF gridOverlay.draggedLine.type = "col"
                THEN /\ after.customRowPositions
                          = gridOverlay.customRowPositions
                     /\ OnlyBoundaryMoved(
                           gridOverlay.customColPositions,
                           after.customColPositions,
                           gridOverlay.draggedLine.index,
                           gridOverlay.grid.x,
                           gridOverlay.grid.x + gridOverlay.grid.width)
                ELSE /\ after.customColPositions
                          = gridOverlay.customColPositions
                     /\ OnlyBoundaryMoved(
                           gridOverlay.customRowPositions,
                           after.customRowPositions,
                           gridOverlay.draggedLine.index,
                           gridOverlay.grid.y,
                           gridOverlay.grid.y + gridOverlay.grid.height)

\* the first column boundary of the default grid is being dragged and has
\* been moved from 84 to 60, the second is still at 156
C14_Witness ==
    /\ WellFormedGrid
    /\ gridOverlay.isDraggingLine
    /\ gridOverlay.draggedLine = [type |-> "col", index |-> 0]
    /\ gridOverlay.grid.x = Px(12)
    /\ gridOverlay.grid.width = Px(216)
    /\ gridOverlay.customColPositions = <<Px(60), Px(156)>>

----------------------------------------------------------------------------
(* Properties of the templates                                             *)

\* the drawn rectangle translated into the coordinates of cell (0, 0)
RelativeToReferenceCell(o, rect) ==
    [x |-> rect.x - cellRect(o, 0, 0).x,
     y |-> rect.y - cellRect(o, 0, 0).y,
     width |-> rect.width,
     height |-> rect.height]

\* a region relative to cell (0, 0) lies within the footprint of that cell
WithinReferenceCell(o, box) ==
    /\ box.x >= 0
    /\ box.y >= 0
    /\ box.x + box.width <= cellRect(o, 0, 0).width
    /\ box.y + box.height <= cellRect(o, 0, 0).height

\* a pointer-up in this state commits the rubber band
Commits(o) == o.isDrawing /\ o.currentRect # Null

\* C15: entering cell-template mode when no grid exists is rejected
\* (enableTemplateMode returns false) and leaves all model state unchanged:
\* grid stays null, templateMode stays false, no region is created;
\* entering page-template mode succeeds with or without a grid.  (Stated
\* of the two commands issued in any reachable state.)
C15_CellModeNeedsGridPageModeDoesNot ==
    /\ ~GridExists =>
          /\ ~enableTemplateModeReturns(gridOverlay)
          /\ enableTemplateMode(gridOverlay) = gridOverlay
          /\ enableTemplateMode(gridOverlay).grid = Null
          /\ ~enableTemplateMode(gridOverlay).templateMode
          /\ enableTemplateMode(gridOverlay).boxes = gridOverlay.boxes
    /\ enableHeaderTemplateMode(gridOverlay).headerTemplateMode
    /\ enableHeaderTemplateMode(gridOverlay).grid = gridOverlay.grid

\* page-template mode has been entered with a document loaded and no grid
C15_Witness ==
    /\ AppState.pdfFile
    /\ ~GridExists
    /\ gridOverlay.headerTemplateMode
    /\ ~gridOverlay.templateMode
    /\ gridOverlay.boxes = NoBoxes

\* C16: applying the cell template while voterIdBox is undefined is a
\* no-op (gridResizeDisabled, the mode and all regions are unchanged);
\* applying it while voterIdBox is defined, even as the only region,
\* succeeds: gridResizeDisabled is set and cell-template mode is left.
\* (Stated of the command issued in any reachable state.)
C16_ApplyNeedsIdentifierRegion ==
    \A after \in {ApplyTemplateResult(gridOverlay)} :
       IF gridOverlay.boxes.voterIdBox = Null
       THEN after = gridOverlay
       ELSE /\ after.gridResizeDisabled
            /\ ~after.templateMode
            /\ after.boxes = gridOverlay.boxes

\* a template whose only region is voterIdBox has been applied
C16_Witness ==
    /\ gridOverlay.gridResizeDisabled
    /\ ~gridOverlay.templateMode
    /\ gridOverlay.boxes.voterIdBox # Null
    /\ \A b \in AllBoxes \ {"voterIdBox"} : gridOverlay.boxes[b] = Null

\* C17: on a committing pointer-up in cell-template mode the region stored
\* for the selected field is the drawn rectangle with x reduced by
\* cell(0,0).x and y reduced by cell(0,0).y, width and height unchanged; on
\* a committing pointer-up in page-template mode the stored region is the
\* drawn rectangle unchanged.  (Stated of the pointer-up issued in any
\* reachable state.)
C17_CommitTranslatesCellRegions ==
    \A after \in {MouseUpResult(gridOverlay)} :
       Commits(gridOverlay) =>
          /\ (/\ gridOverlay.templateMode
              /\ ~gridOverlay.headerTemplateMode
              /\ GridExists
              /\ CellBoxOfType(gridOverlay.templateType) # "none")
             => after.boxes[CellBoxOfType(gridOverlay.templateType)]
                   = RelativeToReferenceCell(gridOverlay,
                                             gridOverlay.currentRect)
          /\ (/\ gridOverlay.headerTemplateMode
              /\ HeaderBoxOfType(gridOverlay.templateType) # "none")
             => after.boxes[HeaderBoxOfType(gridOverlay.templateType)]
                   = gridOverlay.currentRect

\* the rectangle drawn from (12, 24) to (60, 60) on the default grid, whose
\* origin is (12, 24), is stored as the identifier region
C17_Witness ==
    /\ GridExists
    /\ gridOverlay.grid.x = Px(12)
    /\ gridOverlay.grid.y = Px(24)
    /\ gridOverlay.templateMode
    /\ ~gridOverlay.isDrawing
    /\ gridOverlay.boxes.voterIdBox
          = [x |-> 0, y |-> 0, width |-> Px(48), height |-> Px(36)]

\* C18: every cell-scoped region committed by drawing lies within the
\* footprint of the reference cell at commit time (relative x, y >= 0,
\* x + width <= cell width, y + height <= cell height); a rectangle drawn
\* outside cell(0,0) is not stored.  (Stated of the pointer-up issued in
\* any reachable state.)
C18_CellRegionsInsideReferenceCell ==
    \A after \in {MouseUpResult(gridOverlay)} :
       (Commits(gridOverlay) /\ GridExists) =>
          \A b \in CellBoxes :
             after.boxes[b] # gridOverlay.boxes[b] =>
                WithinReferenceCell(gridOverlay, after.boxes[b])

\* C19: every stored region, cell-scoped or page-scoped and however it was
\* created (rubber band in any drag direction, applyQuickTemplate,
\* detected boxes), has width >= 0 and height >= 0 in every reachable
\* state.
C19_RegionsHaveNonNegativeSize ==
    \A b \in AllBoxes :
       gridOverlay.boxes[b] # Null =>
          gridOverlay.boxes[b].width >= 0 /\ gridOverlay.boxes[b].height >= 0

\* C20: export returns a failure value exactly in the stated cases:
\* getGridConfig returns null if and only if no grid exists, and
\* getCellTemplate returns null if and only if no cell-scoped region and no
\* page-scoped region is defined (a template with any one defined region
\* is exported).
C20_ExportFailsOnlyWithoutAnyRegion ==
    /\ (getGridConfig(gridOverlay) = Null) <=> ~GridExists
    /\ (getCellTemplate(gridOverlay) = Null)
          <=> (\A b \in AllBoxes : gridOverlay.boxes[b] = Null)

\* C20, as amended: getGridConfig returns null if and only if no grid
\* exists, and getCellTemplate returns null if and only if the identifier
\* region voterIdBox is undefined and no page-scoped region is defined; a
\* template that is exported carries every defined region.
C20_ExportFailsWithoutIdentifierAndPageRegion ==
    /\ (getGridConfig(gridOverlay) = Null) <=> ~GridExists
    /\ (getCellTemplate(gridOverlay) = Null)
          <=> (/\ gridOverlay.boxes.voterIdBox = Null
               /\ \A b \in HeaderBoxes : gridOverlay.boxes[b] = Null)
    /\ getCellTemplate(gridOverlay) # Null =>
          /\ DOMAIN getCellTemplate(gridOverlay).cellTemplate
                = {b \in CellBoxes : gridOverlay.boxes[b] # Null}
          /\ DOMAIN getCellTemplate(gridOverlay).headerTemplate
                = {b \in HeaderBoxes : gridOverlay.boxes[b] # Null}

\* a grid exists and the photo region is the only region defined: the grid
\* is exported, the template is not
C20_Witness ==
    /\ GridExists
    /\ getGridConfig(gridOverlay) # Null
    /\ gridOverlay.boxes.photoBox # Null
    /\ \A b \in AllBoxes \ {"photoBox"} : gridOverlay.boxes[b] = Null
    /\ getCellTemplate(gridOverlay) = Null

----------------------------------------------------------------------------
(* Properties of the export                                                *)

\* an exported value times the scale is the stored value (the scale is in
\* quarters)
RoundTrips(exported, stored, scale) == exported * scale = stored * 4

BoxRoundTrips(exported, stored, scale) ==
    /\ RoundTrips(exported.x, stored.x, scale)
    /\ RoundTrips(exported.y, stored.y, scale)
    /\ RoundTrips(exported.width, stored.width, scale)
    /\ RoundTrips(exported.height, stored.height, scale)

PositionsRoundTrip(exported, stored, scale) ==
    /\ Len(exported) = Len(stored)
    /\ \A i \in 1..Len(stored) :
          stored[i] # Undefined => RoundTrips(exported[i], stored[i], scale)

----------------------------------------------------------------------------
(* Properties of the replication                                           *)

\* q is value * size / reference, up to the rounding of the fixed-point
\* representation (less than one sub-unit)
IsScaled(q, value, size, reference) ==
    LET n == value * (size \div HalfPixel)
        d == reference \div HalfPixel
    IN IF d > 0 THEN q * d <= n /\ n < (q + 1) * d
       ELSE q * d >= n /\ n > (q + 1) * d

\* the replicated regions of o, one per cell and defined region, all
\* satisfy P(cell, reference, box, drawn)
AllReplicated(o, P(_, _, _, _)) ==
    \A drawn \in {drawTemplateOnAllCells(o)} :
       \A row \in 0..(o.grid.rows - 1), col \in 0..(o.grid.columns - 1) :
          \A b \in DOMAIN drawn[row, col] :
             P(cellRect(o, row, col), getFirstCell(o), o.boxes[b],
               drawn[row, col][b])

FollowsFormula(cell, reference, box, drawn) ==
    /\ IsScaled(drawn.x - cell.x, box.x, cell.width, reference.width)
    /\ IsScaled(drawn.y - cell.y, box.y, cell.height, reference.height)
    /\ IsScaled(drawn.width, box.width, cell.width, reference.width)
    /\ IsScaled(drawn.height, box.height, cell.height, reference.height)
    /\ (cell.width = reference.width /\ cell.height = reference.height)
          => drawn = [x |-> cell.x + box.x, y |-> cell.y + box.y,
                      width |-> box.width, height |-> box.height]

\* C23: replication formula: for every cell (r, c) with rectangle
\* (cx, cy, cw, ch) and reference cell size (rw, rh), every defined
\* cell-scoped region (bx, by, bw, bh) is replicated as
\* (cx + bx*cw/rw, cy + by*ch/rh, bw*cw/rw, bh*ch/rh); region (5, 5, 50, 20)
\* on a 100 x 100 reference maps into a 150 x 100 cell as offset (7.5, 5),
\* size (75, 20); in a cell with the reference cell's width and height the
\* replicated region is the stored region translated by the cell origin.
C23_ReplicationFormula ==
    /\ (ReplicationDrawn(gridOverlay) /\ WellFormedGrid)
          => AllReplicated(gridOverlay, FollowsFormula)
    /\ ReplicatedRegion(
          [x |-> Px(200), y |-> Px(100),
           width |-> Px(150), height |-> Px(100)],
          [x |-> 0, y |-> 0, width |-> Px(100), height |-> Px(100)],
          [x |-> Px(5), y |-> Px(5), width |-> Px(50), height |-> Px(20)])
       = [x |-> Px(200) + Px(15) \div 2, y |-> Px(100) + Px(5),
          width |-> Px(75), height |-> Px(20)]

\* the column boundary was dragged from 120 to 60, the identifier region
\* (0, 0, 48, 36) was drawn on the 48 wide reference cell and applied: in
\* the 168 wide cell (0, 1) it is drawn 168 wide
C23_Witness ==
    /\ ReplicationDrawn(gridOverlay)
    /\ gridOverlay.gridResizeDisabled
    /\ gridOverlay.grid.x = Px(12)
    /\ gridOverlay.customColPositions = <<Px(60)>>
    /\ gridOverlay.boxes.voterIdBox
          = [x |-> 0, y |-> 0, width |-> Px(48), height |-> Px(36)]
    /\ drawTemplateOnAllCells(gridOverlay)[0, 1].voterIdBox
          = [x |-> Px(60), y |-> Px(24),
             width |-> Px(168), height |-> Px(36)]

\* the reference cell with only its height doubled
TwiceAsHigh(reference) == [reference EXCEPT !.height = 2 * @]

\* against the reference cell twice as high, the replicated region has
\* twice the vertical offset and twice the height
DoublesVertically(cell, reference, box, drawn) ==
    \A taller \in {ReplicatedRegion(cell, TwiceAsHigh(reference), box)} :
       /\ taller.y - cell.y = 2 * (drawn.y - cell.y)
       /\ taller.height = 2 * drawn.height
       /\ taller.x = drawn.x
       /\ taller.width = drawn.width

\* against the reference cell twice as high, the replicated region has
\* half the vertical offset and half the height (rounded down to a
\* sub-unit)
HalvesVertically(cell, reference, box, drawn) ==
    \A taller \in {ReplicatedRegion(cell, TwiceAsHigh(reference), box)} :
       /\ taller.y - cell.y = (drawn.y - cell.y) \div 2
       /\ taller.height = drawn.height \div 2
       /\ taller.x = drawn.x
       /\ taller.width = drawn.width

\* C24: replication scales independently per axis: doubling only the
\* reference cell's height (its width and the target cells held fixed)
\* doubles only the y and height components of every replicated region
\* and leaves the x and width components unchanged.
C24_TallerReferenceDoublesVertically ==
    (ReplicationDrawn(gridOverlay) /\ WellFormedGrid)
       => AllReplicated(gridOverlay, DoublesVertically)

\* C24, as amended: replication scales independently per axis and
\* inversely to the reference cell's size: doubling only the reference
\* cell's height (its width and the target cells held fixed) halves the
\* vertical offset from the cell origin and the height of every replicated
\* region, and leaves the x and width components unchanged.
C24_TallerReferenceHalvesVertically ==
    (ReplicationDrawn(gridOverlay) /\ WellFormedGrid)
       => AllReplicated(gridOverlay, HalvesVertically)

\* the identifier region drawn from (60, 60) to (120, 60) on the default
\* grid, which has the vertical offset 36 and the width 60, is replicated:
\* against a reference cell twice as high its offset in cell (0, 0) is 18
C24_Witness ==
    /\ ReplicationDrawn(gridOverlay)
    /\ gridOverlay.grid.y = Px(24)
    /\ gridOverlay.boxes.voterIdBox # Null
    /\ gridOverlay.boxes.voterIdBox.y = Px(36)
    /\ gridOverlay.boxes.voterIdBox.width = Px(60)
    /\ ReplicatedRegion(cellRect(gridOverlay, 0, 0),
                        TwiceAsHigh(getFirstCell(gridOverlay)),
                        gridOverlay.boxes.voterIdBox).y
          = Px(24) + Px(18)

----------------------------------------------------------------------------
(* Properties of the commands and of the page view                         *)

\* C25: clearGrid discards everything tied to the grid: after it, grid is
\* null, both boundary lists are empty, all nine cell-scoped regions and
\* both page-scoped regions are undefined, both template modes are off and
\* the frozen flags gridResizeDisabled and headerTemplateApplied are
\* false.  (Stated of the command issued in any reachable state.)
C25_ClearDiscardsGridAndTemplates ==
    \A after \in {clearGrid(gridOverlay)} :
       /\ after.grid = Null
       /\ after.customRowPositions = <<>>
       /\ after.customColPositions = <<>>
       /\ \A b \in CellBoxes : after.boxes[b] = Null
       /\ \A b \in HeaderBoxes : after.boxes[b] = Null
       /\ ~after.templateMode
       /\ ~after.headerTemplateMode
       /\ ~after.gridResizeDisabled
       /\ ~after.headerTemplateApplied

\* the grid was cleared while the cell template was being defined: the
\* field selected in that mode is still recorded, everything else is gone
C25_Witness ==
    /\ AppState.pdfFile
    /\ ~GridExists
    /\ gridOverlay.templateType = "voterID"
    /\ gridOverlay.customRowPositions = <<>>
    /\ gridOverlay.customColPositions = <<>>
    /\ gridOverlay.boxes = NoBoxes
    /\ ~gridOverlay.templateMode
    /\ ~gridOverlay.gridResizeDisabled

\* C26: the periodic completion check (the 500 ms timer) never mutates
\* model state: a tick leaves grid, boundaries, regions, mode flags,
\* selected field and frozen flags unchanged, and it enables an apply
\* button only when the corresponding mode is active and its template is
\* complete.  (Stated of the tick in any reachable state, for every state
\* of the two buttons.)
C26_CompletionCheckOnlyEnablesButtons ==
    \A disabled \in ButtonStates :
       \A tick \in {completionWatcherResult(gridOverlay, disabled)} :
          /\ tick.overlay = gridOverlay
          /\ (disabled.btnApplyTemplate
                 /\ ~tick.disabled.btnApplyTemplate)
                => (gridOverlay.templateMode
                      /\ gridOverlay.boxes.voterIdBox # Null)
          /\ (disabled.btnApplyHeaderTemplate
                 /\ ~tick.disabled.btnApplyHeaderTemplate)
                => (gridOverlay.headerTemplateMode
                      /\ \E b \in HeaderBoxes : gridOverlay.boxes[b] # Null)

\* cell-template mode with the identifier region drawn: the tick enables
\* the apply button of the cell template and not that of the page template
C26_Witness ==
    /\ gridOverlay.templateMode
    /\ gridOverlay.boxes.voterIdBox # Null
    /\ completionWatcherResult(
          gridOverlay,
          [btnApplyTemplate |-> TRUE, btnApplyHeaderTemplate |-> TRUE])
            .disabled
          = [btnApplyTemplate |-> FALSE, btnApplyHeaderTemplate |-> TRUE]

\* C27: a page-rendered notification changes only the size of the
\* overlay's drawing surface and its stored scale factor: grid rectangle,
\* boundary positions, every region, mode flags, selected field and frozen
\* flag are unchanged across page changes and zoom changes.  (Stated of
\* the notification arriving in any reachable state.)
C27_PageRenderedKeepsModel ==
    \A ev \in RenderEvents :
       \A after \in {handlePDFPageRenderedResult(gridOverlay, ev)} :
          /\ after = [gridOverlay EXCEPT !.canvas = after.canvas,
                                         !.pdfScale = after.pdfScale]
          /\ after.canvas = [width |-> Px(ev.width), height |-> Px(ev.height)]
          /\ after.pdfScale = ev.scale

\* the grid laid out on the 240 x 240 page and the identifier region are
\* kept, frozen, while the page is shown 200 x 200 at scale 1.25
C27_Witness ==
    /\ gridOverlay.canvas = [width |-> Px(200), height |-> Px(200)]
    /\ gridOverlay.pdfScale = 5
    /\ GridExists
    /\ gridOverlay.grid.width = Px(216)
    /\ gridOverlay.customColPositions = <<Px(120)>>
    /\ gridOverlay.boxes.voterIdBox # Null
    /\ gridOverlay.gridResizeDisabled

\* box is the rectangle (fx * w, fy * h, fw * w, fh * h) / 100
IsFractionOf(box, w, h, fx, fy, fw, fh) ==
    /\ box.x * 100 = fx * w
    /\ box.y * 100 = fy * h
    /\ box.width * 100 = fw * w
    /\ box.height * 100 = fh * h

\* C28: applyQuickTemplate with an existing grid defines the identifier
\* region and the photo region as fixed fractions of the reference cell
\* (w x h): voterIdBox = (0.05w, 0.15h, 0.55w, 0.35h), spanning 5% - 60% of
\* the width, and photoBox = (0.62w, 0.10h, 0.33w, 0.70h), spanning
\* 62% - 95%, both inside the reference cell and horizontally disjoint;
\* with no grid it returns false and changes nothing.  (Stated of the
\* command issued in any reachable state.)
C28_QuickTemplateFractionsInsideCell ==
    \A after \in {QuickTemplateResult(gridOverlay)} :
       IF ~GridExists
       THEN ~applyQuickTemplateReturns(gridOverlay) /\ after = gridOverlay
       ELSE /\ applyQuickTemplateReturns(gridOverlay)
            /\ IsFractionOf(after.boxes.voterIdBox,
                            cellRect(gridOverlay, 0, 0).width,
                            cellRect(gridOverlay, 0, 0).height,
                            5, 15, 55, 35)
            /\ IsFractionOf(after.boxes.photoBox,
                            cellRect(gridOverlay, 0, 0).width,
                            cellRect(gridOverlay, 0, 0).height,
                            62, 10, 33, 70)
            /\ WithinReferenceCell(gridOverlay, after.boxes.voterIdBox)
            /\ WithinReferenceCell(gridOverlay, after.boxes.photoBox)
            /\ after.boxes.voterIdBox.x + after.boxes.voterIdBox.width
                  <= after.boxes.photoBox.x

----------------------------------------------------------------------------
(* Properties of the pointer gestures                                      *)

\* the fields a grid transform sets when it starts
TransformFlags(o) ==
    [isResizing |-> o.isResizing, isDraggingLine |-> o.isDraggingLine,
     isDragging |-> o.isDragging, resizeHandle |-> o.resizeHandle,
     draggedLine |-> o.draggedLine]

\* (x, y) is in the clickable area of a corner of the grid
OnCornerHandle(o, x, y) ==
    \E cx \in {o.grid.x, o.grid.x + o.grid.width},
       cy \in {o.grid.y, o.grid.y + o.grid.height} :
       Abs(x - cx) <= Px(HandleHitSize) /\ Abs(y - cy) <= Px(HandleHitSize)

\* (x, y) is within 8 units of a boundary line, along the grid's span
OnBoundaryLine(o, x, y) ==
    \/ /\ \E i \in 1..Len(o.customColPositions) :
             Abs(x - o.customColPositions[i]) <= Px(8)
       /\ o.grid.y <= y /\ y <= o.grid.y + o.grid.height
    \/ /\ \E i \in 1..Len(o.customRowPositions) :
             Abs(y - o.customRowPositions[i]) <= Px(8)
       /\ o.grid.x <= x /\ x <= o.grid.x + o.grid.width

InsideGrid(o, x, y) ==
    /\ o.grid.x <= x /\ x <= o.grid.x + o.grid.width
    /\ o.grid.y <= y /\ y <= o.grid.y + o.grid.height

C30_PointerUpKeepsModeAndField ==
    \A after \in {MouseUpResult(gridOverlay)} :
       /\ after.templateMode = gridOverlay.templateMode
       /\ after.headerTemplateMode = gridOverlay.headerTemplateMode
       /\ after.templateType = gridOverlay.templateType
       /\ after.grid = gridOverlay.grid
       /\ after.gridResizeDisabled = gridOverlay.gridResizeDisabled

\* the identifier region and the photo region have been drawn one after
\* the other and cell-template mode is still active, photo selected
C30_Witness ==
    /\ gridOverlay.templateMode
    /\ gridOverlay.templateType = "photo"
    /\ ~gridOverlay.isDrawing
    /\ gridOverlay.boxes.voterIdBox # Null
    /\ gridOverlay.boxes.photoBox # Null
    /\ ~gridOverlay.gridResizeDisabled

\* a draw or a grid transform is in progress
GestureInProgress(o) ==
    o.isDrawing \/ o.isDragging \/ o.isResizing \/ o.isDraggingLine

\* C31: after any pointer-up no draw and no grid transform remains in
\* progress: isDrawing, isDragging, isResizing and isDraggingLine are
\* false and resizeHandle, draggedLine and currentRect are null (with no
\* template mode active the controller is back in Idle), and a pointer-up
\* with no drag or draw in progress changes no model state.  (Stated of
\* the pointer-up arriving in any reachable state.)
C31_PointerUpEndsEveryGesture ==
    \A after \in {MouseUpResult(gridOverlay)} :
       /\ ~GestureInProgress(after)
       /\ after.resizeHandle = "null"
       /\ after.draggedLine = Null
       /\ after.currentRect = Null
       /\ ~GestureInProgress(gridOverlay) => after = gridOverlay

\* a corner resize that made the default grid 168 wide has been ended by a
\* pointer-up and no template mode is active
C31_Witness ==
    /\ GridExists
    /\ gridOverlay.grid.width = Px(168)
    /\ gridOverlay.gridStartWidth = Px(216)
    /\ ~GestureInProgress(gridOverlay)
    /\ gridOverlay.resizeHandle = "null"
    /\ ~gridOverlay.templateMode
    /\ ~gridOverlay.headerTemplateMode

\* the corner of the rectangle diagonally opposite the handle
OppositeCorner(handle, rect) ==
    CASE handle = "topLeft" ->
           <<rect.x + rect.width, rect.y + rect.height>>
      [] handle = "topRight" -> <<rect.x, rect.y + rect.height>>
      [] handle = "bottomLeft" -> <<rect.x + rect.width, rect.y>>
      [] OTHER -> <<rect.x, rect.y>>

\* the grid rectangle recorded when the resize started
ResizeStart(o) ==
    [x |-> o.gridStartX, y |-> o.gridStartY,
     width |-> o.gridStartWidth, height |-> o.gridStartHeight]

\* C32: during a corner resize the corner diagonally opposite the dragged
\* handle stays where it was when the drag started (dragging topLeft keeps
\* x + width and y + height, dragging bottomRight keeps x and y), also on
\* the steps on which the minimum-size floor is applied.  (Stated of the
\* resizing pointer-move arriving in any reachable state.)
C32_ResizeKeepsOppositeCorner ==
    \A p \in AllPoints :
       \A after \in {MouseMoveResult(gridOverlay, Px(p[1]), Px(p[2]))} :
          MouseMoveBranch(gridOverlay) = "resize" =>
             OppositeCorner(gridOverlay.resizeHandle, after.grid)
                = OppositeCorner(gridOverlay.resizeHandle,
                                 ResizeStart(gridOverlay))

----------------------------------------------------------------------------
(* C33: without a grid there is no cell template                           *)

\* C33: whenever no grid exists, template mode is off and every one of the
\* nine cell-scoped regions is undefined.
C33_NoGridNoCellTemplate ==
    ~GridExists =>
       /\ ~gridOverlay.templateMode
       /\ \A b \in CellBoxes : gridOverlay.boxes[b] = Null

\* a grid with template mode entered and a rubber band drawn in it has been
\* cleared
C33_Witness ==
    /\ ~GridExists
    /\ gridOverlay.drawStart # Null
    /\ ~gridOverlay.isDrawing
    /\ gridOverlay.templateType = "voterID"
    /\ pointerDowns > 0

----------------------------------------------------------------------------
(* C34, C35: the frozen grid                                               *)

\* C34: whenever the grid is frozen (gridResizeDisabled is true), the
\* identifier region voterIdBox is defined.
C34_FrozenGridHasIdentifierRegion ==
    gridOverlay.gridResizeDisabled => gridOverlay.boxes.voterIdBox # Null

\* C35: laying out a grid while a grid exists leaves a fresh grid: not
\* frozen, with no cell-scoped region and with template mode off.
C35_LayoutYieldsFreshGrid ==
    \A r \in TemplateRows \cup RowInputs :
       \A c \in TemplateColumns \cup ColumnInputs :
          \A after \in {DrawGridResult(gridOverlay, AppState, r, c)} :
             (AppState.pdfFile /\ GridExists) =>
                /\ ~after.gridResizeDisabled
                /\ ~after.templateMode
                /\ \A b \in CellBoxes : after.boxes[b] = Null

----------------------------------------------------------------------------
(* C36: the outcomes of an extraction                                      *)

\* the regions, both modes and the frozen flag are the same in both overlays
SameTemplateState(before, after) ==
    /\ after.boxes = before.boxes
    /\ after.templateMode = before.templateMode
    /\ after.headerTemplateMode = before.headerTemplateMode
    /\ after.gridResizeDisabled = before.gridResizeDisabled

\* C36: when the extraction request resolves, every cell- and page-scoped
\* region is cleared, headerTemplateApplied is false and header template
\* mode is active; when a precondition of Extract fails (no PDF, no file
\* id, a null grid configuration or a null cell template) no request is
\* sent; when either request is rejected, the regions, both modes and the
\* frozen flag are unchanged.
C36_ExtractionOutcomes ==
    /\ \A after \in {extractSettledResult(gridOverlay, TRUE)} :
          /\ \A b \in AllBoxes : after.boxes[b] = Null
          /\ ~after.headerTemplateApplied
          /\ after.headerTemplateMode
    /\ ( \/ ~AppState.pdfFile
         \/ ~AppState.fileId
         \/ getGridConfig(gridOverlay) = Null
         \/ getCellTemplate(gridOverlay) = Null )
          => ~handleExtractSends(AppState, gridOverlay)
    /\ \A after \in {configureSettledResult(gridOverlay, FALSE),
                     extractSettledResult(gridOverlay, FALSE)} :
          SameTemplateState(gridOverlay, after)

\* an extraction of a frozen grid has succeeded: the grid is still frozen,
\* no region is left and header template mode is on
C36_Witness ==
    /\ GridExists
    /\ gridOverlay.gridResizeDisabled
    /\ \A b \in AllBoxes : gridOverlay.boxes[b] = Null
    /\ gridOverlay.headerTemplateMode
    /\ inFlight.extract = 0
    /\ AppState.fileId

----------------------------------------------------------------------------
(* C37: the overlay's scale follows the viewer's                           *)

\* C37: whenever no render is in flight, the scale stored in the overlay
\* (pdfScale) equals the viewer's current scale.
C37_OverlayScaleFollowsViewer ==
    ~pdfViewer.rendering => gridOverlay.pdfScale = pdfViewer.scale

----------------------------------------------------------------------------
(* C38: auto-detection is single-flight                                    *)

\* C38: at most one autoDetectRegions call is in progress; isDetecting is
\* true exactly while one is, so it is false again once the running call
\* has finished, whatever its outcome; and a call made while one is in
\* progress throws and leaves the flag, the grid and the regions as they
\* were.
C38_DetectionIsSingleFlight ==
    /\ detectCalls.awaiting <= 1
    /\ azureVision.isDetecting <=> detectCalls.awaiting = 1
    /\ detectCalls.awaiting > 0 =>
          \A call \in {autoDetectRegionsCall(azureVision, gridOverlay)} :
             /\ call.throws
             /\ call.azureVision = azureVision
             /\ call.overlay = gridOverlay

\* a call has been rejected while another was in progress, and that one is
\* still running, over a grid that an earlier detection laid out
C38_Witness ==
    /\ detectCalls.rejected
    /\ detectCalls.awaiting = 1
    /\ azureVision.isDetecting
    /\ azureVision.lastDetectionResult # Null
    /\ GridExists

----------------------------------------------------------------------------
(* C39: signup keeps emails unique                                         *)

\* the requests that carry an email and a password
SignupsFor(email) ==
    {r \in Requests : signups[r].email = email /\ signups[r].status # 400
                      /\ signups[r].pc # "none"}

\* C39: at most one user record exists per email, and once several signups
\* with the same email have all been answered, none of them with a server
\* error, exactly one was answered 201 and the others 409.
C39_SignupKeepsEmailsUnique ==
    \A email \in Emails :
       /\ users[email] <= 1
       /\ ( /\ SignupsFor(email) # {}
            /\ \A r \in SignupsFor(email) :
                  signups[r].pc = "done" /\ signups[r].status # 500 )
             => /\ Cardinality({r \in SignupsFor(email) :
                                   signups[r].status = 201}) = 1
                /\ \A r \in SignupsFor(email) :
                      signups[r].status \in {201, 409}

====
